---- MODULE Spec2Model ----
(***************************************************************************)
(* Model of DresBot.py: the moderation commands, the warn counter and the  *)
(* welcome lifecycle of the bot.  A handler is a coroutine: one action     *)
(* resumes it from the await it is suspended in and runs it to its next    *)
(* await or to its end.                                                    *)
(***************************************************************************)
EXTENDS Integers, Sequences, FiniteSets, TLC

(***************************************************************************)
(* Python values.  Strings are sequences of one-character strings, so that *)
(* strip, lower, the regular expression and int() are computed.            *)
(***************************************************************************)
None == [tag |-> "None"]

Some(v) == [tag |-> "some", v |-> v]

\* a str value; chars is its sequence of characters
Str(chars) == [tag |-> "str", chars |-> chars]

DigitChars == <<"0", "1", "2", "3", "4", "5", "6", "7", "8", "9">>

UpperChars == <<"A", "B", "C", "D", "E", "F", "G", "H", "I", "J", "K", "L", "M",
                "N", "O", "P", "Q", "R", "S", "T", "U", "V", "W", "X", "Y", "Z">>

LowerChars == <<"a", "b", "c", "d", "e", "f", "g", "h", "i", "j", "k", "l", "m",
                "n", "o", "p", "q", "r", "s", "t", "u", "v", "w", "x", "y", "z">>

WhitespaceChars == {" ", "\t", "\n"}

IsDigit(c) == \E i \in 1..Len(DigitChars) : DigitChars[i] = c

DigitVal(c) == (CHOOSE i \in 1..Len(DigitChars) : DigitChars[i] = c) - 1

\* str.lower() on one character
LowerChar(c) ==
    IF \E i \in 1..Len(UpperChars) : UpperChars[i] = c
    THEN LowerChars[CHOOSE i \in 1..Len(UpperChars) : UpperChars[i] = c]
    ELSE c

Lower(s) == [i \in 1..Len(s) |-> LowerChar(s[i])]

\* str.strip(): drop leading and trailing whitespace
Strip(s) ==
    LET keep == {i \in 1..Len(s) : s[i] \notin WhitespaceChars}
    IN  IF keep = {} THEN <<>>
        ELSE LET lo == CHOOSE i \in keep : \A j \in keep : i <= j
                 hi == CHOOSE i \in keep : \A j \in keep : j <= i
             IN  SubSeq(s, lo, hi)

\* length of the longest prefix of s made of digits (of whitespace)
DigitPrefixLen(s) ==
    IF \A i \in 1..Len(s) : IsDigit(s[i]) THEN Len(s)
    ELSE (CHOOSE i \in 1..Len(s) :
             /\ ~IsDigit(s[i])
             /\ \A j \in 1..(i - 1) : IsDigit(s[j])) - 1

SpacePrefixLen(s) ==
    IF \A i \in 1..Len(s) : s[i] \in WhitespaceChars THEN Len(s)
    ELSE (CHOOSE i \in 1..Len(s) :
             /\ s[i] \notin WhitespaceChars
             /\ \A j \in 1..(i - 1) : s[j] \in WhitespaceChars) - 1

RECURSIVE DecimalValue(_)
\* the value of a sequence of decimal digits
DecimalValue(ds) ==
    IF ds = <<>> THEN 0
    ELSE 10 * DecimalValue(SubSeq(ds, 1, Len(ds) - 1)) + DigitVal(ds[Len(ds)])

\* int(text): the integer, or None where int() raises ValueError
ParseInt(text) ==
    LET t == Strip(text.chars)
        signed == t # <<>> /\ t[1] \in {"+", "-"}
        body == IF signed THEN Tail(t) ELSE t
    IN  IF body # <<>> /\ DigitPrefixLen(body) = Len(body)
        THEN Some(IF signed /\ t[1] = "-" THEN 0 - DecimalValue(body)
                  ELSE DecimalValue(body))
        ELSE None

(***************************************************************************)
(* datetime.timedelta, normalised as CPython keeps it: days and seconds.   *)
(***************************************************************************)
SecondsPerDay == 86400

MaxTimedeltaDays == 999999999

OverflowError == [tag |-> "OverflowError"]

Timedelta(days, seconds) ==
    LET d == days + (seconds \div SecondsPerDay)
    IN  IF d > MaxTimedeltaDays \/ d < 0 - MaxTimedeltaDays THEN OverflowError
        ELSE [tag |-> "timedelta", days |-> d, seconds |-> seconds % SecondsPerDay]

\* bool(timedelta): a zero span is falsy
TimedeltaTruthy(td) == td.days # 0 \/ td.seconds # 0

UnitTokens ==
    { <<"s">>, <<"s","e","c">>, <<"s","e","c","s">>,
      <<"s","e","c","o","n","d">>, <<"s","e","c","o","n","d","s">>,
      <<"m">>, <<"m","i","n">>, <<"m","i","n","s">>,
      <<"m","i","n","u","t","e">>, <<"m","i","n","u","t","e","s">>,
      <<"h">>, <<"h","r">>, <<"h","r","s">>,
      <<"h","o","u","r">>, <<"h","o","u","r","s">>,
      <<"d">>, <<"d","a","y">>, <<"d","a","y","s">> }

\* re.match(r"^(\d+)\s*(unit)?$", s0): the two groups, or None
DurationMatch(s0) ==
    LET n == DigitPrefixLen(s0)
        rest == SubSeq(s0, n + 1, Len(s0))
        unit == SubSeq(rest, SpacePrefixLen(rest) + 1, Len(rest))
    IN  IF n >= 1 /\ (unit = <<>> \/ unit \in UnitTokens)
        THEN [tag |-> "match", g1 |-> SubSeq(s0, 1, n), g2 |-> unit]
        ELSE None

\* parse_duration(s): a timedelta, None, or OverflowError where timedelta raises
parse_duration(s) ==
    IF s = None \/ s.chars = <<>> THEN None
    ELSE LET s0 == Lower(Strip(s.chars))
             m == DurationMatch(s0)
         IN  IF m = None THEN None
             ELSE LET val == DecimalValue(m.g1)
                      unit == m.g2
                  IN  IF unit = <<>> THEN Timedelta(0, val)
                      ELSE IF unit[1] = "s" THEN Timedelta(0, val)
                      ELSE IF unit[1] = "m"
                           THEN Timedelta(val \div 1440, (val % 1440) * 60)
                      ELSE IF unit[1] = "h"
                           THEN Timedelta(val \div 24, (val % 24) * 3600)
                      ELSE IF unit[1] = "d" THEN Timedelta(val, 0)
                      ELSE Timedelta(0, val)

(***************************************************************************)
(* datetime: proleptic ordinal day and second of the day.                  *)
(***************************************************************************)
MaxOrdinal == 3652059

\* datetime + timedelta, OverflowError past year 9999
DatetimeAdd(dt, td) ==
    LET secs == dt.seconds + td.seconds
        d == dt.days + td.days + (secs \div SecondsPerDay)
    IN  IF d > MaxOrdinal \/ d < 1 THEN OverflowError
        ELSE [tag |-> "datetime", days |-> d, seconds |-> secs % SecondsPerDay]

(***************************************************************************)
(* check_issuer_permission: the decision taken once get_chat_member has    *)
(* answered.  member is the ChatMember returned, or LookupError when the   *)
(* call raised.                                                            *)
(***************************************************************************)
LookupError == [tag |-> "error"]

ChatMember(status, attrs) == [tag |-> "member", status |-> status, attrs |-> attrs]

\* bool(getattr(member, name, False))
GetAttrBool(member, name) ==
    IF name \in DOMAIN member.attrs THEN member.attrs[name] ELSE FALSE

Allow == [allow |-> TRUE, reply |-> "-"]

Deny(text) == [allow |-> FALSE, reply |-> text]

MsgFetchFailed == "Failed to fetch your chat permissions."

MsgMustBeAdmin == "You must be a chat admin to use this command."

MsgNoRestrict == "You don't have permission to restrict/ban members (can_restrict_members)."

MsgNoDelete == "You don't have permission to delete messages (can_delete_messages)."

\* check_issuer_permission without the can_restrict_members test
check_issuer_permission_no_restrict(member, need) ==
    IF member = LookupError THEN Deny(MsgFetchFailed)
    ELSE IF member.status = "creator" THEN Allow
    ELSE IF member.status # "administrator" THEN Deny(MsgMustBeAdmin)
    ELSE IF need = "delete" /\ ~GetAttrBool(member, "can_delete_messages")
         THEN Deny(MsgNoDelete)
         ELSE Allow

check_issuer_permission(member, need) ==
    IF member = LookupError THEN Deny(MsgFetchFailed)
    ELSE IF member.status = "creator" THEN Allow
    ELSE IF member.status # "administrator" THEN Deny(MsgMustBeAdmin)
    ELSE LET can_restrict == GetAttrBool(member, "can_restrict_members")
             can_delete == GetAttrBool(member, "can_delete_messages")
         IN  IF need \in {"ban", "kick", "mute"} /\ ~can_restrict
             THEN Deny(MsgNoRestrict)
             ELSE IF need = "delete" /\ ~can_delete THEN Deny(MsgNoDelete)
             ELSE Allow

\* is_chat_admin accepting every status the lookup returns
is_chat_admin_any_status(member) == member # LookupError

\* is_chat_admin: the boolean returned once get_chat_member has answered
is_chat_admin(member) ==
    IF member = LookupError THEN FALSE
    ELSE member.status \in {"administrator", "creator"}

(***************************************************************************)
(* The persisted document.  A dict is a function whose domain is its key   *)
(* set; keys are the str() of chat and user ids.                           *)
(***************************************************************************)
EmptyDict == [k \in {} |-> None]

DictSet(d, key, value) ==
    [k \in DOMAIN d \cup {key} |-> IF k = key THEN value ELSE d[k]]

DictDel(d, key) == [k \in DOMAIN d \ {key} |-> d[k]]

\* dict.get(key, default)
DictGet(d, key, default) == IF key \in DOMAIN d THEN d[key] ELSE default

RECURSIVE NatDigits(_)
\* the decimal digits of a natural number
NatDigits(n) ==
    IF n < 10 THEN <<DigitChars[n + 1]>>
    ELSE Append(NatDigits(n \div 10), DigitChars[(n % 10) + 1])

\* str(i) of an int
PyStr(i) == Str(IF i < 0 THEN <<"-">> \o NatDigits(0 - i) ELSE NatDigits(i))

\* load_store() when STORE_FILE is absent or unreadable
EmptyStore == [welcomes |-> EmptyDict, warns |-> EmptyDict]

FileAbsent == [tag |-> "absent"]

FileCorrupt == [tag |-> "corrupt"]

FileWith(doc) == [tag |-> "json", doc |-> doc]

\* json.dump: None is written as null, an int as a number, a str as a string
\* and a dict as an object; the keys of the document are str already
JsonNull == [tag |-> "null"]

JsonNumber(n) == [tag |-> "number", v |-> n]

JsonString(s) == [tag |-> "string", chars |-> s.chars]

JsonDump(store) ==
    [welcomes |->
        [k \in DOMAIN store.welcomes |->
            LET rec == store.welcomes[k]
            IN  [message |-> JsonString(rec.message),
                 channel_link |-> IF rec.channel_link = None THEN JsonNull
                                  ELSE JsonString(rec.channel_link),
                 last_welcome_message_id |->
                     IF rec.last_welcome_message_id = None THEN JsonNull
                     ELSE JsonNumber(rec.last_welcome_message_id.v)]],
     warns |->
        [k \in DOMAIN store.warns |->
            [x \in DOMAIN store.warns[k] |-> JsonNumber(store.warns[k][x])]]]

\* json.load: null is read as None, a number as an int, a string as a str
JsonLoad(doc) ==
    [welcomes |->
        [k \in DOMAIN doc.welcomes |->
            LET rec == doc.welcomes[k]
            IN  [message |-> Str(rec.message.chars),
                 channel_link |-> IF rec.channel_link = JsonNull THEN None
                                  ELSE Str(rec.channel_link.chars),
                 last_welcome_message_id |->
                     IF rec.last_welcome_message_id = JsonNull THEN None
                     ELSE Some(rec.last_welcome_message_id.v)]],
     warns |->
        [k \in DOMAIN doc.warns |->
            [x \in DOMAIN doc.warns[k] |-> doc.warns[k][x].v]]]

load_store(file) == IF file.tag = "json" THEN JsonLoad(file.doc) ELSE EmptyStore

\* save_store(store): what the file holds afterwards.  result is "ok", or
\* "open_failed" (open raised, file untouched), or "dump_failed" (the file was
\* truncated by open and the dump did not complete); both failures are logged
SaveResults == {"ok", "open_failed", "dump_failed"}

\* save_store leaving the file as it is
save_store_keep_file(file, store, result) == file

save_store(file, store, result) ==
    IF result = "ok" THEN FileWith(JsonDump(store))
    ELSE IF result = "open_failed" THEN file
    ELSE FileCorrupt

(***************************************************************************)
(* State.                                                                  *)
(***************************************************************************)
VARIABLES
    task,       \* worker -> the handler coroutine it runs, with its position
    STORE,      \* the in-memory document
    DISK,       \* the content of STORE_FILE
    BLACKLIST,  \* the in-memory blacklist
    platform,   \* per chat: the welcome messages sent and the deletions asked
    probe,      \* a call of a pure function: its arguments and its result
    history     \* what has happened so far: the warns that reached the increment

vars == <<task, STORE, DISK, BLACKLIST, platform, probe, history>>

\* the workers of the dispatcher that run handlers
Workers == {"w1", "w2"}

Chats == {-1001, -1002}

IdleTask ==
    [kind |-> "none", pc |-> "idle", update |-> None, member |-> None,
     target |-> None, until |-> None, cfg |-> None, idx |-> 0,
     trace |-> <<>>, outcome |-> "none"]

\* a platform call or reply issued by a handler, with its result once known
Call(op, args) == [op |-> op, args |-> args, res |-> "pending"]

Issue(t, call, pc) == [t EXCEPT !.trace = Append(@, call), !.pc = pc]

\* the awaited call has answered
Resolve(t, res) == [t EXCEPT !.trace[Len(t.trace)].res = res]

\* reply_text of a message template with the values formatted into it
Reply(text, target, extra) ==
    Call("reply_text", [text |-> text, target |-> target, extra |-> extra])

\* the handler returns, or an exception leaves it; its locals are gone
Return(t) == [IdleTask EXCEPT !.kind = t.kind, !.outcome = "returned"]

Raise(t) == [IdleTask EXCEPT !.kind = t.kind, !.outcome = "raised"]

CallResults == {"ok", "fail"}

Init ==
    /\ task = [w \in Workers |-> IdleTask]
    /\ DISK = FileAbsent
    /\ STORE = load_store(FileAbsent)
    /\ BLACKLIST = {}
    /\ platform = [c \in Chats |-> [sent |-> <<>>, delete_asked |-> {}]]
    /\ probe = None
    /\ history = [warned |-> EmptyDict, last_owner_op |-> EmptyDict]

(***************************************************************************)
(* Inputs: the updates the dispatcher hands to command handlers, and what  *)
(* the platform answers.                                                   *)
(***************************************************************************)
\* words given as the first argument, and as the second
FirstArgs == { Str(<<"5">>), Str(<<"a", "b", "c">>) }

SecondArgs ==
    { Str(<<"0">>), Str(<<"1", "0", "m">>), Str(<<"a", "b", "c">>),
      Str(<<"9", "9", "9", "9", "9", "9", "9", "9", "9", "d">>) }

\* context.args: the whitespace-separated words after the command
ArgLists ==
    {<<>>} \cup {<<a>> : a \in FirstArgs} \cup {<<a, b>> : a \in FirstArgs, b \in SecondArgs}

Message(from_user, text) == [tag |-> "message", from_user |-> from_user, text |-> text]

Update(chat, user, args, reply) ==
    [chat |-> chat, user |-> user, args |-> args, reply_to_message |-> reply]

ModChats == {-1001}

ModUpdates ==
    { Update(c, Some(42), a, r) : c \in ModChats, a \in ArgLists,
                                  r \in {None, Message(7, None)} }
    \cup { Update(c, None, <<>>, None) : c \in ModChats }

NoAttrs == [k \in {} |-> FALSE]

AdminAttrs(can_restrict, can_delete) ==
    [can_restrict_members |-> can_restrict, can_delete_messages |-> can_delete]

\* what get_chat_member answers
MemberResults ==
    {LookupError}
    \cup {ChatMember(st, NoAttrs) : st \in {"creator", "member", "kicked"}}
    \cup {ChatMember("administrator", AdminAttrs(r, ~r)) : r \in BOOLEAN}

\* datetime.now(timezone.utc)
Nows == { [tag |-> "datetime", days |-> 739560, seconds |-> 86000] }

(***************************************************************************)
(* Moderation commands.                                                    *)
(***************************************************************************)
ModKinds == {"kick", "ban", "unban", "mute", "unmute", "warn"}

\* the capability each command passes to check_issuer_permission
Need(kind) ==
    CASE kind = "kick" -> "kick"
      [] kind = "ban" -> "ban"
      [] kind = "unban" -> "ban"
      [] kind = "mute" -> "mute"
      [] kind = "unmute" -> "mute"
      [] kind = "warn" -> "kick"

Usage(kind) ==
    CASE kind = "kick" -> "Usage: /kick <user_id or reply>"
      [] kind = "ban" -> "Usage: /ban <user_id or reply> [duration]"
      [] kind = "unban" -> "Usage: /unban <user_id or reply>"
      [] kind = "unmute" -> "Usage: /unmute <user_id or reply>"
      [] kind = "warn" -> "Usage: /warn <user_id or reply>"

MsgNumeric == "Provide numeric user id or reply."

\* the command handler is dispatched and runs to its first await
CommandStart(w, kind, u) ==
    /\ task[w].pc = "idle"
    /\ LET t == [IdleTask EXCEPT !.kind = kind, !.update = u, !.outcome = "running"]
       IN  task' = [task EXCEPT ![w] =
               IF u.user = None
               THEN Issue(t, Reply("Unable to determine user/chat.", None, None),
                          "reply_return")
               ELSE Issue(t, Call("get_chat_member",
                                  [chat |-> u.chat, user_id |-> u.user.v]),
                          "get_chat_member")]
    /\ UNCHANGED <<STORE, DISK, BLACKLIST, platform, probe, history>>

\* get_chat_member has answered
Looked(t, member) ==
    [Resolve(t, IF member = LookupError THEN "fail" ELSE "ok") EXCEPT !.member = member]

\* the reply of check_issuer_permission when it returns False
DenyReply(t, member) ==
    Issue(Looked(t, member),
          Reply(check_issuer_permission(member, Need(t.kind)).reply, None, None),
          "reply_return")

\* ResolveTarget reading the first argument before the reply
ResolveTarget_args_first(u) ==
    IF u.args # <<>>
    THEN [ok |-> ParseInt(u.args[1]) # None, target |-> ParseInt(u.args[1]),
          usage |-> FALSE]
    ELSE IF u.reply_to_message # None
         THEN [ok |-> TRUE, target |-> Some(u.reply_to_message.from_user),
               usage |-> FALSE]
         ELSE [ok |-> FALSE, target |-> None, usage |-> TRUE]

\* target resolution of kick, ban, unban, unmute and warn
ResolveTarget(u) ==
    IF u.reply_to_message # None
    THEN [ok |-> TRUE, target |-> Some(u.reply_to_message.from_user), usage |-> FALSE]
    ELSE IF u.args # <<>>
         THEN [ok |-> ParseInt(u.args[1]) # None, target |-> ParseInt(u.args[1]),
               usage |-> FALSE]
         ELSE [ok |-> FALSE, target |-> None, usage |-> TRUE]

TargetErrorReply(t, member) ==
    Issue(Looked(t, member),
          Reply(IF ResolveTarget(t.update).usage THEN Usage(t.kind) ELSE MsgNumeric,
                None, None),
          "reply_return")

\* the handler body is entered with a target
Entered(t, member) ==
    [Looked(t, member) EXCEPT !.target = ResolveTarget(t.update).target]

Awaiting(w, kind, pc) == task[w].kind = kind /\ task[w].pc = pc

SuccessText(kind) ==
    CASE kind = "kick" -> "Kicked {target}."
      [] kind = "ban" -> "Banned {target}."
      [] kind = "unban" -> "Unbanned {target}."
      [] kind = "mute" -> "Muted {target} for {dur_arg}."
      [] kind = "unmute" -> "Unmuted {target}."

FailText(kind) ==
    CASE kind = "kick" -> "Failed to kick: {e}"
      [] kind = "ban" -> "Failed to ban: {e}"
      [] kind = "unban" -> "Failed to unban: {e}"
      [] kind = "mute" -> "Failed to mute: {e}"
      [] kind = "unmute" -> "Failed to unmute: {e}"

\* the except branch of a command: log, then reply with the failure
FailureReply(t) == Issue(t, Reply(FailText(t.kind), None, None), "reply_return")

\* the last platform call of the try block succeeded: reply with the success
SuccessReply(t, extra) ==
    Issue(t, Reply(SuccessText(t.kind), t.target, extra), "reply_in_try")

(* ---- ChatPermissions compatibility ---- *)
CanonicalFlags ==
    {"can_send_messages", "can_send_media_messages", "can_send_polls",
     "can_send_other_messages", "can_add_web_page_previews", "can_change_info",
     "can_invite_users", "can_pin_messages"}

CANONICAL_PERMS == [f \in CanonicalFlags |-> FALSE]

\* the default_perms dict of unmute_cmd
UnmutePerms ==
    [f \in CanonicalFlags |-> f \notin {"can_change_info", "can_pin_messages"}]

\* ChatPermissions(**kwargs): the flags given; the others stay unset
ChatPermissions(kwargs) == [tag |-> "ChatPermissions", flags |-> kwargs]

\* valid_params is the parameter set of the installed ChatPermissions
make_chat_permissions_from_dict(perms, valid_params) ==
    ChatPermissions([k \in DOMAIN perms \cap valid_params |-> perms[k]])

build_full_mute_permissions(valid_params) ==
    make_chat_permissions_from_dict(CANONICAL_PERMS, valid_params)

\* parameter sets of ChatPermissions: the Bot API before and after the
\* media flag was split
ParamSchemas ==
    { CanonicalFlags,
      (CanonicalFlags \ {"can_send_media_messages"})
          \cup {"can_send_audios", "can_send_photos", "can_manage_topics"} }

(* ---- kick ---- *)
KickStart(w, u) == CommandStart(w, "kick", u)

KickAuth(w, member) ==
    /\ Awaiting(w, "kick", "get_chat_member")
    /\ LET t == task[w]
       IN  task' = [task EXCEPT ![w] =
               IF ~check_issuer_permission(member, Need(t.kind)).allow
               THEN DenyReply(t, member)
               ELSE IF ~ResolveTarget(t.update).ok THEN TargetErrorReply(t, member)
               ELSE LET e == Entered(t, member)
                    IN  Issue(e, Call("ban_chat_member",
                                      [chat |-> e.update.chat, user_id |-> e.target.v,
                                       until_date |-> None]),
                              "ban_chat_member")]
    /\ UNCHANGED <<STORE, DISK, BLACKLIST, platform, probe, history>>

\* KickBanDone going on to unban whatever ban answered
KickBanDone_unban_anyway(w, res) ==
    /\ Awaiting(w, "kick", "ban_chat_member")
    /\ LET t == Resolve(task[w], res)
       IN  task' = [task EXCEPT ![w] =
               Issue(t, Call("unban_chat_member",
                             [chat |-> t.update.chat, user_id |-> t.target.v]),
                     "unban_chat_member")]
    /\ UNCHANGED <<STORE, DISK, BLACKLIST, platform, probe, history>>

KickBanDone(w, res) ==
    /\ Awaiting(w, "kick", "ban_chat_member")
    /\ LET t == Resolve(task[w], res)
       IN  task' = [task EXCEPT ![w] =
               IF res = "ok"
               THEN Issue(t, Call("unban_chat_member",
                                  [chat |-> t.update.chat, user_id |-> t.target.v]),
                          "unban_chat_member")
               ELSE FailureReply(t)]
    /\ UNCHANGED <<STORE, DISK, BLACKLIST, platform, probe, history>>

KickUnbanDone(w, res) ==
    /\ Awaiting(w, "kick", "unban_chat_member")
    /\ LET t == Resolve(task[w], res)
       IN  task' = [task EXCEPT ![w] =
               IF res = "ok" THEN SuccessReply(t, None) ELSE FailureReply(t)]
    /\ UNCHANGED <<STORE, DISK, BLACKLIST, platform, probe, history>>

(* ---- ban, unban ---- *)
BanStart(w, u) == CommandStart(w, "ban", u)

\* the until value of ban_cmd: None, a datetime, or OverflowError when
\* parse_duration or the addition raises
BanUntil(args, now) ==
    IF Len(args) >= 2
    THEN LET dur == parse_duration(args[2])
         IN  IF dur = OverflowError THEN OverflowError
             ELSE IF dur # None /\ TimedeltaTruthy(dur) THEN DatetimeAdd(now, dur)
             ELSE None
    ELSE None

BanAuth(w, member, now) ==
    /\ Awaiting(w, "ban", "get_chat_member")
    /\ LET t == task[w]
       IN  task' = [task EXCEPT ![w] =
               IF ~check_issuer_permission(member, Need(t.kind)).allow
               THEN DenyReply(t, member)
               ELSE IF ~ResolveTarget(t.update).ok THEN TargetErrorReply(t, member)
               ELSE LET e == Entered(t, member)
                        until == BanUntil(t.update.args, now)
                    IN  IF until = OverflowError THEN Raise(e)
                        ELSE Issue([e EXCEPT !.until = until],
                                   Call("ban_chat_member",
                                        [chat |-> e.update.chat, user_id |-> e.target.v,
                                         until_date |-> until]),
                                   "ban_chat_member")]
    /\ UNCHANGED <<STORE, DISK, BLACKLIST, platform, probe, history>>

BanDone(w, res) ==
    /\ Awaiting(w, "ban", "ban_chat_member")
    /\ LET t == Resolve(task[w], res)
       IN  task' = [task EXCEPT ![w] =
               IF res = "ok" THEN SuccessReply(t, None) ELSE FailureReply(t)]
    /\ UNCHANGED <<STORE, DISK, BLACKLIST, platform, probe, history>>

UnbanStart(w, u) == CommandStart(w, "unban", u)

UnbanAuth(w, member) ==
    /\ Awaiting(w, "unban", "get_chat_member")
    /\ LET t == task[w]
       IN  task' = [task EXCEPT ![w] =
               IF ~check_issuer_permission(member, Need(t.kind)).allow
               THEN DenyReply(t, member)
               ELSE IF ~ResolveTarget(t.update).ok THEN TargetErrorReply(t, member)
               ELSE LET e == Entered(t, member)
                    IN  Issue(e, Call("unban_chat_member",
                                      [chat |-> e.update.chat, user_id |-> e.target.v]),
                              "unban_chat_member")]
    /\ UNCHANGED <<STORE, DISK, BLACKLIST, platform, probe, history>>

UnbanDone(w, res) ==
    /\ Awaiting(w, "unban", "unban_chat_member")
    /\ LET t == Resolve(task[w], res)
       IN  task' = [task EXCEPT ![w] =
               IF res = "ok" THEN SuccessReply(t, None) ELSE FailureReply(t)]
    /\ UNCHANGED <<STORE, DISK, BLACKLIST, platform, probe, history>>

(* ---- mute, unmute ---- *)
MuteStart(w, u) == CommandStart(w, "mute", u)

MsgMuteAmbiguous ==
    "Reply to a user's message and use /mute <duration>, or use /mute <user_id> <duration>."

MsgMuteNumeric == "Provide a numeric user id or reply."

MsgMuteUsage == "Usage: /mute <duration> (reply) OR /mute <user_id> <duration>"

MsgInvalidDuration == "Invalid duration. Examples: 10m, 2h"

\* target and dur_arg of mute_cmd, or the reply that ends the command
MuteResolve(u) ==
    IF u.reply_to_message # None
    THEN [ok |-> TRUE, target |-> Some(u.reply_to_message.from_user),
          dur_arg |-> IF u.args # <<>> THEN u.args[1] ELSE None, error |-> "-"]
    ELSE IF u.args # <<>>
         THEN IF Len(u.args) = 1
              THEN [ok |-> FALSE, target |-> None, dur_arg |-> None,
                    error |-> MsgMuteAmbiguous]
              ELSE IF ParseInt(u.args[1]) = None
                   THEN [ok |-> FALSE, target |-> None, dur_arg |-> None,
                         error |-> MsgMuteNumeric]
                   ELSE [ok |-> TRUE, target |-> ParseInt(u.args[1]),
                         dur_arg |-> u.args[2], error |-> "-"]
         ELSE [ok |-> FALSE, target |-> None, dur_arg |-> None, error |-> MsgMuteUsage]

MuteAuth(w, member, now, valid_params) ==
    /\ Awaiting(w, "mute", "get_chat_member")
    /\ LET t == task[w]
           r == MuteResolve(t.update)
           e == [Looked(t, member) EXCEPT !.target = r.target]
           dur == parse_duration(r.dur_arg)
       IN  task' = [task EXCEPT ![w] =
               IF ~check_issuer_permission(member, Need(t.kind)).allow
               THEN DenyReply(t, member)
               ELSE IF ~r.ok
                    THEN Issue(Looked(t, member), Reply(r.error, None, None),
                               "reply_return")
               ELSE IF dur = OverflowError THEN Raise(e)
               ELSE IF dur = None \/ ~TimedeltaTruthy(dur)
                    THEN Issue(e, Reply(MsgInvalidDuration, None, None), "reply_return")
               ELSE IF DatetimeAdd(now, dur) = OverflowError THEN Raise(e)
               ELSE Issue([e EXCEPT !.until = DatetimeAdd(now, dur)],
                          Call("restrict_chat_member",
                               [chat |-> e.update.chat, user_id |-> e.target.v,
                                permissions |-> build_full_mute_permissions(valid_params),
                                until_date |-> DatetimeAdd(now, dur)]),
                          "restrict_chat_member")]
    /\ UNCHANGED <<STORE, DISK, BLACKLIST, platform, probe, history>>

MuteDone(w, res) ==
    /\ Awaiting(w, "mute", "restrict_chat_member")
    /\ LET t == Resolve(task[w], res)
       IN  task' = [task EXCEPT ![w] =
               IF res = "ok" THEN SuccessReply(t, MuteResolve(t.update).dur_arg)
               ELSE FailureReply(t)]
    /\ UNCHANGED <<STORE, DISK, BLACKLIST, platform, probe, history>>

UnmuteStart(w, u) == CommandStart(w, "unmute", u)

UnmuteAuth(w, member, valid_params) ==
    /\ Awaiting(w, "unmute", "get_chat_member")
    /\ LET t == task[w]
       IN  task' = [task EXCEPT ![w] =
               IF ~check_issuer_permission(member, Need(t.kind)).allow
               THEN DenyReply(t, member)
               ELSE IF ~ResolveTarget(t.update).ok THEN TargetErrorReply(t, member)
               ELSE LET e == Entered(t, member)
                    IN  Issue(e, Call("restrict_chat_member",
                                      [chat |-> e.update.chat, user_id |-> e.target.v,
                                       permissions |->
                                           make_chat_permissions_from_dict(UnmutePerms,
                                                                           valid_params),
                                       until_date |-> None]),
                              "restrict_chat_member")]
    /\ UNCHANGED <<STORE, DISK, BLACKLIST, platform, probe, history>>

UnmuteDone(w, res) ==
    /\ Awaiting(w, "unmute", "restrict_chat_member")
    /\ LET t == Resolve(task[w], res)
       IN  task' = [task EXCEPT ![w] =
               IF res = "ok" THEN SuccessReply(t, None) ELSE FailureReply(t)]
    /\ UNCHANGED <<STORE, DISK, BLACKLIST, platform, probe, history>>

(* ---- warn ---- *)
MaxWarn == 2

\* STORE["warns"][chat_key].get(target_key, 0)
WarnCount(store, chat, target) ==
    DictGet(DictGet(store.warns, PyStr(chat), EmptyDict), PyStr(target), 0)

WarnStart(w, u) ==
    /\ ResolveTarget(u).ok => WarnCount(STORE, u.chat, ResolveTarget(u).target.v) < MaxWarn
    /\ CommandStart(w, "warn", u)

\* the document after the increment of warn_cmd, with the default of get at 1
Warned_default_one(store, chat, target) ==
    [store EXCEPT !.warns =
        DictSet(@, PyStr(chat),
                DictSet(DictGet(@, PyStr(chat), EmptyDict), PyStr(target),
                        DictGet(DictGet(store.warns, PyStr(chat), EmptyDict),
                                PyStr(target), 1) + 1))]

\* Warned replacing the chat's counters by the one of the target
Warned_fresh_chat(store, chat, target) ==
    [store EXCEPT !.warns =
        DictSet(@, PyStr(chat),
                DictSet(EmptyDict, PyStr(target), WarnCount(store, chat, target) + 1))]

\* the document after the increment of warn_cmd
Warned(store, chat, target) ==
    [store EXCEPT !.warns =
        DictSet(@, PyStr(chat),
                DictSet(DictGet(@, PyStr(chat), EmptyDict), PyStr(target),
                        WarnCount(store, chat, target) + 1))]

\* WarnAuth writing the count it would have read before awaiting the role
\* lookup: the one another warn of the pair, still replying, has reported
WarnAuth_stale_read(w, member, saved) ==
    /\ Awaiting(w, "warn", "get_chat_member")
    /\ LET t == task[w]
           e == Entered(t, member)
           racing == {v \in Workers \ {w} :
                         /\ task[v].kind = "warn" /\ task[v].pc = "reply_return"
                         /\ task[v].update.chat = t.update.chat
                         /\ task[v].target = e.target}
           count == IF racing = {}
                    THEN WarnCount(STORE, e.update.chat, e.target.v) + 1
                    ELSE WarnCount(STORE, e.update.chat, e.target.v)
       IN  IF ~check_issuer_permission(member, Need(t.kind)).allow
           THEN /\ task' = [task EXCEPT ![w] = DenyReply(t, member)]
                /\ UNCHANGED <<STORE, DISK, history>>
           ELSE IF ~ResolveTarget(t.update).ok
           THEN /\ task' = [task EXCEPT ![w] = TargetErrorReply(t, member)]
                /\ UNCHANGED <<STORE, DISK, history>>
           ELSE /\ STORE' = [STORE EXCEPT !.warns =
                       DictSet(@, PyStr(e.update.chat),
                               DictSet(DictGet(@, PyStr(e.update.chat), EmptyDict),
                                       PyStr(e.target.v), count))]
                /\ DISK' = save_store(DISK, STORE', saved)
                /\ history' = [history EXCEPT !.warned =
                       DictSet(@, <<e.update.chat, e.target.v>>,
                               DictGet(@, <<e.update.chat, e.target.v>>, 0) + 1)]
                /\ task' = [task EXCEPT ![w] =
                       Issue(Resolve(Issue(e, Call("save_store", None), "save_store"),
                                     saved),
                             Reply("Warned {target} ({count} total).", e.target,
                                   Some(count)),
                             "reply_return")]
    /\ UNCHANGED <<BLACKLIST, platform, probe>>

WarnAuth(w, member, saved) ==
    /\ Awaiting(w, "warn", "get_chat_member")
    /\ LET t == task[w]
           e == Entered(t, member)
       IN  IF ~check_issuer_permission(member, Need(t.kind)).allow
           THEN /\ task' = [task EXCEPT ![w] = DenyReply(t, member)]
                /\ UNCHANGED <<STORE, DISK, history>>
           ELSE IF ~ResolveTarget(t.update).ok
           THEN /\ task' = [task EXCEPT ![w] = TargetErrorReply(t, member)]
                /\ UNCHANGED <<STORE, DISK, history>>
           ELSE /\ STORE' = Warned(STORE, e.update.chat, e.target.v)
                /\ DISK' = save_store(DISK, STORE', saved)
                /\ history' = [history EXCEPT !.warned =
                       DictSet(@, <<e.update.chat, e.target.v>>,
                               DictGet(@, <<e.update.chat, e.target.v>>, 0) + 1)]
                /\ task' = [task EXCEPT ![w] =
                       Issue(Resolve(Issue(e, Call("save_store", None), "save_store"),
                                     saved),
                             Reply("Warned {target} ({count} total).", e.target,
                                   Some(WarnCount(STORE', e.update.chat, e.target.v))),
                             "reply_return")]
    /\ UNCHANGED <<BLACKLIST, platform, probe>>

(* ---- replies ---- *)
\* the success reply inside a try block has answered; when it raised, the
\* except branch replies with the failure
ReplyInTryDone(w, res) ==
    /\ task[w].pc = "reply_in_try"
    /\ LET t == Resolve(task[w], res)
       IN  task' = [task EXCEPT ![w] = IF res = "ok" THEN Return(t) ELSE FailureReply(t)]
    /\ UNCHANGED <<STORE, DISK, BLACKLIST, platform, probe, history>>

\* a reply outside any try block has answered; the handler returns after it
ReplyReturnDone(w, res) ==
    /\ task[w].pc = "reply_return"
    /\ LET t == Resolve(task[w], res)
       IN  task' = [task EXCEPT ![w] = IF res = "ok" THEN Return(t) ELSE Raise(t)]
    /\ UNCHANGED <<STORE, DISK, BLACKLIST, platform, probe, history>>

(***************************************************************************)
(* Spec: the moderation commands, dispatched one update at a time, as      *)
(* ApplicationBuilder().build() does without concurrent_updates.           *)
(***************************************************************************)
Next ==
    \/ \E u \in ModUpdates : KickStart("w1", u)
    \/ \E m \in MemberResults : KickAuth("w1", m)
    \/ \E r \in CallResults : KickBanDone("w1", r)
    \/ \E r \in CallResults : KickUnbanDone("w1", r)
    \/ \E u \in ModUpdates : BanStart("w1", u)
    \/ \E m \in MemberResults, now \in Nows : BanAuth("w1", m, now)
    \/ \E r \in CallResults : BanDone("w1", r)
    \/ \E u \in ModUpdates : UnbanStart("w1", u)
    \/ \E m \in MemberResults : UnbanAuth("w1", m)
    \/ \E r \in CallResults : UnbanDone("w1", r)
    \/ \E u \in ModUpdates : MuteStart("w1", u)
    \/ \E m \in MemberResults, now \in Nows, vp \in ParamSchemas : MuteAuth("w1", m, now, vp)
    \/ \E r \in CallResults : MuteDone("w1", r)
    \/ \E u \in ModUpdates : UnmuteStart("w1", u)
    \/ \E m \in MemberResults, vp \in ParamSchemas : UnmuteAuth("w1", m, vp)
    \/ \E r \in CallResults : UnmuteDone("w1", r)
    \/ \E u \in ModUpdates : WarnStart("w1", u)
    \/ \E m \in MemberResults, s \in SaveResults : WarnAuth("w1", m, s)
    \/ \E r \in CallResults : ReplyInTryDone("w1", r)
    \/ \E r \in CallResults : ReplyReturnDone("w1", r)

Spec == Init /\ [][Next]_vars

(***************************************************************************)
(* Welcome configuration and the join handler.                             *)
(***************************************************************************)
RECURSIVE Join(_)
\* " ".join(words)
Join(words) ==
    IF words = <<>> THEN <<>>
    ELSE IF Len(words) = 1 THEN words[1].chars
    ELSE words[1].chars \o <<" ">> \o Join(Tail(words))

StartsWith(s, pat) == Len(s) >= Len(pat) /\ SubSeq(s, 1, Len(pat)) = pat

RECURSIVE ReplaceAll(_, _, _)
\* str.replace(pat, rep) for a non-empty pat
ReplaceAll(s, pat, rep) ==
    IF s = <<>> THEN <<>>
    ELSE IF StartsWith(s, pat)
         THEN rep \o ReplaceAll(SubSeq(s, Len(pat) + 1, Len(s)), pat, rep)
         ELSE <<s[1]>> \o ReplaceAll(Tail(s), pat, rep)

WordChannel == Str(<<"-", "-", "c", "h", "a", "n", "n", "e", "l">>)

Placeholder == <<"{", "u", "s", "e", "r", "_", "m", "e", "n", "t", "i", "o", "n", "}">>

\* args.index("--channel")
IndexOf(args, word) == CHOOSE i \in 1..Len(args) : args[i] = word /\ \A j \in 1..(i - 1) : args[j] # word

\* the text and channel_link setwelcome_cmd derives; text is empty when none
WelcomeParse(u) ==
    LET has == \E i \in 1..Len(u.args) : u.args[i] = WordChannel
        at == IndexOf(u.args, WordChannel)
        taken == has /\ at + 1 <= Len(u.args)
        channel_link == IF taken THEN u.args[at + 1] ELSE None
        rest == IF taken
                THEN SubSeq(u.args, 1, at - 1) \o SubSeq(u.args, at + 2, Len(u.args))
                ELSE u.args
        joined == Strip(Join(rest))
        text == IF joined = <<>> /\ u.reply_to_message # None
                   /\ u.reply_to_message.text # None
                   /\ u.reply_to_message.text.chars # <<>>
                THEN Strip(u.reply_to_message.text.chars)
                ELSE joined
    IN  [text |-> Str(text), channel_link |-> channel_link]

WelcomeRecord(text, channel_link, last_id) ==
    [message |-> text, channel_link |-> channel_link, last_welcome_message_id |-> last_id]

\* setwelcome_cmd and clearwelcome_cmd up to the await of is_chat_admin
ConfigStart(w, kind, u) ==
    /\ task[w].pc = "idle"
    /\ LET t == [IdleTask EXCEPT !.kind = kind, !.update = u, !.outcome = "running"]
       IN  task' = [task EXCEPT ![w] =
               IF u.user = None THEN Raise(t)
               ELSE Issue(t, Call("get_chat_member",
                                  [chat |-> u.chat, user_id |-> u.user.v]),
                          "get_chat_member")]
    /\ UNCHANGED <<STORE, DISK, BLACKLIST, platform, probe, history>>

\* a step that writes the document and saves it; the handler then awaits a reply
SaveAndReply(w, t, store, saved, text) ==
    /\ STORE' = store
    /\ DISK' = save_store(DISK, store, saved)
    /\ task' = [task EXCEPT ![w] =
           Issue(Resolve(Issue(t, Call("save_store", None), "save_store"), saved),
                 Reply(text, None, None), "reply_return")]

JustReply(w, t, text) ==
    /\ task' = [task EXCEPT ![w] = Issue(t, Reply(text, None, None), "reply_return")]
    /\ UNCHANGED <<STORE, DISK>>

SetwelcomeStart(w, u) == ConfigStart(w, "setwelcome", u)

SetwelcomeAuth(w, member, saved) ==
    /\ Awaiting(w, "setwelcome", "get_chat_member")
    /\ LET t == Looked(task[w], member)
           u == t.update
           p == WelcomeParse(u)
       IN  IF ~is_chat_admin(member)
           THEN JustReply(w, t, "You must be a chat admin to set welcome message.")
           ELSE IF u.args = <<>> /\ u.reply_to_message = None
           THEN JustReply(w, t, "Usage: /setwelcome <text> [--channel <link>].")
           ELSE IF p.text.chars = <<>>
           THEN JustReply(w, t, "No welcome text provided.")
           ELSE SaveAndReply(w, t,
                    [STORE EXCEPT !.welcomes =
                        DictSet(@, PyStr(u.chat),
                                WelcomeRecord(p.text, p.channel_link, None))],
                    saved, "Welcome message saved for this chat.")
    /\ UNCHANGED <<BLACKLIST, platform, probe, history>>

ClearwelcomeStart(w, u) == ConfigStart(w, "clearwelcome", u)

\* ClearwelcomeAuth deleting the record without testing that it is there
ClearwelcomeAuth_no_test(w, member, saved) ==
    /\ Awaiting(w, "clearwelcome", "get_chat_member")
    /\ LET t == Looked(task[w], member)
           chat_key == PyStr(t.update.chat)
       IN  IF ~is_chat_admin(member)
           THEN JustReply(w, t, "You must be a chat admin to clear welcome.")
           ELSE IF chat_key \in DOMAIN STORE.welcomes
           THEN SaveAndReply(w, t, [STORE EXCEPT !.welcomes = DictDel(@, chat_key)],
                             saved, "Welcome cleared.")
           ELSE /\ task' = [task EXCEPT ![w] = Raise(t)]
                /\ UNCHANGED <<STORE, DISK>>
    /\ UNCHANGED <<BLACKLIST, platform, probe, history>>

ClearwelcomeAuth(w, member, saved) ==
    /\ Awaiting(w, "clearwelcome", "get_chat_member")
    /\ LET t == Looked(task[w], member)
           chat_key == PyStr(t.update.chat)
       IN  IF ~is_chat_admin(member)
           THEN JustReply(w, t, "You must be a chat admin to clear welcome.")
           ELSE IF chat_key \in DOMAIN STORE.welcomes
           THEN SaveAndReply(w, t, [STORE EXCEPT !.welcomes = DictDel(@, chat_key)],
                             saved, "Welcome cleared.")
           ELSE JustReply(w, t, "No welcome configured.")
    /\ UNCHANGED <<BLACKLIST, platform, probe, history>>

(* ---- welcome_handler ---- *)
MaxSent == 3

User(id, full_name, html) == [id |-> id, full_name |-> full_name, html |-> html]

\* mention_html(), or full_name when it raises: the mention and the parse_mode
Mention(member) ==
    IF member.html
    THEN [text |-> <<"<", "a", ">">> \o member.full_name.chars \o <<"<", "/", "a", ">">>,
          parse_mode |-> Some("HTML")]
    ELSE [text |-> member.full_name.chars, parse_mode |-> None]

\* the text welcome_handler sends for a member
RenderWelcome(cfg, member) ==
    LET text == ReplaceAll(cfg.message.chars, Placeholder, Mention(member).text)
    IN  IF cfg.channel_link # None /\ cfg.channel_link.chars # <<>>
        THEN Str((IF text # <<>> /\ text[Len(text)] = "\n" THEN text
                  ELSE text \o <<"\n">>)
                 \o <<"\n", "C", "h", "a", "n", "n", "e", "l", ":", " ">>
                 \o cfg.channel_link.chars)
        ELSE Str(text)

\* bool(last_msg_id)
IdTruthy(id) == id # None /\ id.v # 0

SendCall(t) ==
    Call("send_message",
         [chat_id |-> t.update.chat,
          text |-> RenderWelcome(t.cfg, t.update.new_members[t.idx]),
          parse_mode |-> Mention(t.update.new_members[t.idx]).parse_mode])

\* one pass of the loop body up to its first await, for member idx
BeginMember(t, idx) ==
    LET t1 == [t EXCEPT !.idx = idx]
    IN  IF IdTruthy(t1.cfg.last_welcome_message_id)
        THEN Issue(t1, Call("delete_message",
                            [chat |-> t1.update.chat,
                             message_id |-> t1.cfg.last_welcome_message_id.v]),
                   "delete_message")
        ELSE Issue(t1, SendCall(t1), "send_message")

\* the deletions the platform has been asked for once t has taken its step
AskDelete(plat, t) ==
    IF t.pc = "delete_message"
    THEN [plat EXCEPT ![t.update.chat].delete_asked =
              @ \cup {t.trace[Len(t.trace)].args.message_id}]
    ELSE plat

\* the members that welcome handlers in flight have yet to send to
PendingSends(c) ==
    LET busy == {w \in Workers : task[w].kind = "welcome" /\ task[w].pc # "idle"
                                  /\ task[w].update.chat = c}
        left(w) == Len(task[w].update.new_members) - task[w].idx + 1
    IN  IF busy = {} THEN 0
        ELSE IF Cardinality(busy) = 1 THEN left(CHOOSE w \in busy : TRUE)
        ELSE MaxSent

\* WelcomeStart welcoming with a default text where the chat has no record
WelcomeStart_default_text(w, u) ==
    /\ task[w].pc = "idle"
    /\ Len(platform[u.chat].sent) + PendingSends(u.chat) + Len(u.new_members) <= MaxSent
    /\ LET t == [IdleTask EXCEPT !.kind = "welcome", !.update = u, !.outcome = "running"]
           chat_key == PyStr(u.chat)
           t1 == IF u.new_members = <<>> THEN Return(t)
                 ELSE BeginMember([t EXCEPT !.cfg =
                                      DictGet(STORE.welcomes, chat_key,
                                              WelcomeRecord(Str(<<"H", "i">>), None, None))],
                                  1)
       IN  /\ task' = [task EXCEPT ![w] = t1]
           /\ platform' = AskDelete(platform, t1)
    /\ UNCHANGED <<STORE, DISK, BLACKLIST, probe, history>>

WelcomeStart(w, u) ==
    /\ task[w].pc = "idle"
    /\ Len(platform[u.chat].sent) + PendingSends(u.chat) + Len(u.new_members) <= MaxSent
    /\ LET t == [IdleTask EXCEPT !.kind = "welcome", !.update = u, !.outcome = "running"]
           chat_key == PyStr(u.chat)
           t1 == IF u.new_members = <<>> THEN Return(t)
                 ELSE IF chat_key \notin DOMAIN STORE.welcomes THEN Return(t)
                 ELSE BeginMember([t EXCEPT !.cfg = STORE.welcomes[chat_key]], 1)
       IN  /\ task' = [task EXCEPT ![w] = t1]
           /\ platform' = AskDelete(platform, t1)
    /\ UNCHANGED <<STORE, DISK, BLACKLIST, probe, history>>

\* WelcomeDeleteDone letting a failed delete end the handler
WelcomeDeleteDone_stop_on_failure(w, res) ==
    /\ Awaiting(w, "welcome", "delete_message")
    /\ LET t == Resolve(task[w], res)
       IN  task' = [task EXCEPT ![w] =
               IF res = "ok" THEN Issue(t, SendCall(t), "send_message") ELSE Raise(t)]
    /\ UNCHANGED <<STORE, DISK, BLACKLIST, platform, probe, history>>

\* delete_message has answered; a failure is logged
WelcomeDeleteDone(w, res) ==
    /\ Awaiting(w, "welcome", "delete_message")
    /\ LET t == Resolve(task[w], res)
       IN  task' = [task EXCEPT ![w] = Issue(t, SendCall(t), "send_message")]
    /\ UNCHANGED <<STORE, DISK, BLACKLIST, platform, probe, history>>

\* the handler goes on to the next member, or ends
NextMember(t) ==
    IF t.idx < Len(t.update.new_members) THEN BeginMember(t, t.idx + 1) ELSE Return(t)

\* WelcomeSendDone storing the next message id whatever send_message answered
WelcomeSendDone_store_always(w, res, saved) ==
    /\ Awaiting(w, "welcome", "send_message")
    /\ LET t == Resolve(task[w], res)
           chat == t.update.chat
           chat_key == PyStr(chat)
           message_id == Len(platform[chat].sent) + 1
           plat == IF res = "ok"
                   THEN [platform EXCEPT ![chat].sent = Append(@, message_id)]
                   ELSE platform
           stored == chat_key \in DOMAIN STORE.welcomes
           t1 == IF stored
                 THEN Resolve(Issue(t, Call("save_store", None), "save_store"), saved)
                 ELSE t
           t2 == NextMember(t1)
       IN  /\ STORE' = IF stored
                       THEN [STORE EXCEPT
                                !.welcomes[chat_key].last_welcome_message_id =
                                    Some(message_id)]
                       ELSE STORE
           /\ DISK' = IF stored THEN save_store(DISK, STORE', saved) ELSE DISK
           /\ task' = [task EXCEPT ![w] = t2]
           /\ platform' = AskDelete(plat, t2)
    /\ UNCHANGED <<BLACKLIST, probe, history>>

\* WelcomeSendDone putting the record it read back with the new id
WelcomeSendDone_put_back(w, res, saved) ==
    /\ Awaiting(w, "welcome", "send_message")
    /\ LET t == Resolve(task[w], res)
           chat == t.update.chat
           chat_key == PyStr(chat)
           message_id == Len(platform[chat].sent) + 1
           plat == IF res = "ok"
                   THEN [platform EXCEPT ![chat].sent = Append(@, message_id)]
                   ELSE platform
           stored == res = "ok"
           t1 == IF stored
                 THEN Resolve(Issue(t, Call("save_store", None), "save_store"), saved)
                 ELSE t
           t2 == NextMember(t1)
       IN  /\ STORE' = IF stored
                       THEN [STORE EXCEPT !.welcomes =
                                DictSet(@, chat_key,
                                        WelcomeRecord(DictGet(@, chat_key, t.cfg).message,
                                                      DictGet(@, chat_key, t.cfg).channel_link,
                                                      Some(message_id)))]
                       ELSE STORE
           /\ DISK' = IF stored THEN save_store(DISK, STORE', saved) ELSE DISK
           /\ task' = [task EXCEPT ![w] = t2]
           /\ platform' = AskDelete(plat, t2)
    /\ UNCHANGED <<BLACKLIST, probe, history>>

\* send_message has answered
WelcomeSendDone(w, res, saved) ==
    /\ Awaiting(w, "welcome", "send_message")
    /\ LET t == Resolve(task[w], res)
           chat == t.update.chat
           chat_key == PyStr(chat)
           message_id == Len(platform[chat].sent) + 1
           plat == IF res = "ok"
                   THEN [platform EXCEPT ![chat].sent = Append(@, message_id)]
                   ELSE platform
           stored == res = "ok" /\ chat_key \in DOMAIN STORE.welcomes
           t1 == IF stored
                 THEN Resolve(Issue(t, Call("save_store", None), "save_store"), saved)
                 ELSE t
           t2 == NextMember(t1)
       IN  /\ STORE' = IF stored
                       THEN [STORE EXCEPT
                                !.welcomes[chat_key].last_welcome_message_id =
                                    Some(message_id)]
                       ELSE STORE
           /\ DISK' = IF stored THEN save_store(DISK, STORE', saved) ELSE DISK
           /\ task' = [task EXCEPT ![w] = t2]
           /\ platform' = AskDelete(plat, t2)
    /\ UNCHANGED <<BLACKLIST, probe, history>>

(* ---- inputs of the welcome handlers ---- *)
WelcomeChats == {-1001}

WordHi == Str(<<"H", "i">>)

WordMention == Str(Placeholder)

WordLink == Str(<<"t", ".", "m", "e">>)

SetwelcomeUpdates ==
    { Update(c, Some(42), a, r) :
        c \in WelcomeChats,
        a \in { <<>>, <<WordHi, WordMention>>, <<WordHi, WordChannel, WordLink>>,
                <<WordChannel, WordLink>> },
        r \in {None, Message(7, None), Message(7, Str(<<" ", "Y", "o">>))} }
    \cup { Update(c, None, <<WordHi>>, None) : c \in WelcomeChats }

ClearwelcomeUpdates ==
    { Update(c, u, <<>>, None) : c \in WelcomeChats, u \in {None, Some(42)} }

JoinUpdate(chat, new_members) == [chat |-> chat, new_members |-> new_members]

Alice == User(11, Str(<<"A", "l">>), TRUE)

Bob == User(12, Str(<<"B", "o">>), FALSE)

JoinUpdates ==
    { JoinUpdate(c, ms) : c \in WelcomeChats, ms \in {<<Alice>>, <<Bob, Alice>>} }

\* what get_chat_member answers to is_chat_admin
AdminLookups ==
    {LookupError, ChatMember("creator", NoAttrs), ChatMember("member", NoAttrs),
     ChatMember("administrator", AdminAttrs(FALSE, FALSE))}

(***************************************************************************)
(* SpecWelcome: the welcome commands and join events, dispatched one       *)
(* update at a time.                                                       *)
(***************************************************************************)
NextWelcome ==
    \/ \E u \in SetwelcomeUpdates : SetwelcomeStart("w1", u)
    \/ \E m \in AdminLookups, s \in SaveResults : SetwelcomeAuth("w1", m, s)
    \/ \E u \in ClearwelcomeUpdates : ClearwelcomeStart("w1", u)
    \/ \E m \in AdminLookups, s \in SaveResults : ClearwelcomeAuth("w1", m, s)
    \/ \E u \in JoinUpdates : WelcomeStart("w1", u)
    \/ \E r \in CallResults : WelcomeDeleteDone("w1", r)
    \/ \E r \in CallResults, s \in SaveResults : WelcomeSendDone("w1", r, s)
    \/ \E r \in CallResults : ReplyReturnDone("w1", r)

SpecWelcome == Init /\ [][NextWelcome]_vars

(***************************************************************************)
(* SpecConc: the same handlers on two workers, interleaved at their        *)
(* awaits, as under concurrent_updates; every save succeeds.               *)
(***************************************************************************)
ConcSetwelcomeUpdates ==
    { Update(c, Some(42), a, None) :
        c \in WelcomeChats, a \in {<<WordHi, WordMention>>, <<WordChannel, WordLink>>} }

ConcLookups == {ChatMember("creator", NoAttrs), ChatMember("member", NoAttrs)}

ConcJoinUpdates ==
    { JoinUpdate(c, ms) : c \in WelcomeChats, ms \in {<<Alice>>, <<Bob, Alice>>} }

NextConc ==
    \E w \in Workers :
        \/ \E u \in ConcSetwelcomeUpdates : SetwelcomeStart(w, u)
        \/ \E m \in ConcLookups : SetwelcomeAuth(w, m, "ok")
        \/ \E u \in ClearwelcomeUpdates : ClearwelcomeStart(w, u)
        \/ \E m \in ConcLookups : ClearwelcomeAuth(w, m, "ok")
        \/ \E u \in ConcJoinUpdates : WelcomeStart(w, u)
        \/ \E r \in CallResults : WelcomeDeleteDone(w, r)
        \/ \E r \in CallResults : WelcomeSendDone(w, r, "ok")
        \/ \E r \in CallResults : ReplyReturnDone(w, r)

SpecConc == Init /\ [][NextConc]_vars

(***************************************************************************)
(* SpecFrame: warn, the welcome commands and join events in two chats,     *)
(* dispatched one update at a time; every save succeeds.                   *)
(***************************************************************************)
MaxFrameWarns == 2

MaxFrameSent == 2

FrameWarnUpdates ==
    { Update(c, Some(42), <<Str(<<"5">>)>>, r) :
        c \in Chats, r \in {None, Message(7, None)} }

FrameSetwelcomeUpdates == { Update(c, Some(42), <<WordHi>>, None) : c \in Chats }

FrameClearwelcomeUpdates == { Update(c, Some(42), <<>>, None) : c \in Chats }

FrameJoinUpdates == { JoinUpdate(c, <<Alice>>) : c \in Chats }

\* the warns recorded and the welcome messages sent, over both chats
FrameWarns ==
    WarnCount(STORE, -1001, 5) + WarnCount(STORE, -1001, 7)
        + WarnCount(STORE, -1002, 5) + WarnCount(STORE, -1002, 7)

FrameSent == Len(platform[-1001].sent) + Len(platform[-1002].sent)

NextFrame ==
    \/ \E u \in FrameWarnUpdates : FrameWarns < MaxFrameWarns /\ WarnStart("w1", u)
    \/ \E m \in ConcLookups : WarnAuth("w1", m, "ok")
    \/ \E u \in FrameSetwelcomeUpdates : SetwelcomeStart("w1", u)
    \/ \E m \in ConcLookups : SetwelcomeAuth("w1", m, "ok")
    \/ \E u \in FrameClearwelcomeUpdates : ClearwelcomeStart("w1", u)
    \/ \E m \in ConcLookups : ClearwelcomeAuth("w1", m, "ok")
    \/ \E u \in FrameJoinUpdates : FrameSent < MaxFrameSent /\ WelcomeStart("w1", u)
    \/ \E r \in CallResults : WelcomeDeleteDone("w1", r)
    \/ \E r \in CallResults : WelcomeSendDone("w1", r, "ok")
    \/ \E r \in CallResults : ReplyReturnDone("w1", r)

SpecFrame == Init /\ [][NextFrame]_vars

(***************************************************************************)
(* SpecStore: warn, the welcome commands and join events in one chat,      *)
(* dispatched one update at a time, each save succeeding or failing, and   *)
(* the process restarting: the module is imported again, so STORE is       *)
(* load_store() of the file and BLACKLIST is empty.                        *)
(***************************************************************************)
Restart ==
    /\ \E w \in Workers : task[w] # IdleTask
    /\ task' = [w \in Workers |-> IdleTask]
    /\ STORE' = load_store(DISK)
    /\ BLACKLIST' = {}
    /\ history' = [warned |-> EmptyDict, last_owner_op |-> EmptyDict]
    /\ UNCHANGED <<DISK, platform, probe>>

StoreWarnUpdates == { Update(c, Some(42), <<Str(<<"5">>)>>, None) : c \in WelcomeChats }

StoreSetwelcomeUpdates ==
    { Update(c, Some(42), <<WordHi, WordChannel, WordLink>>, None) : c \in WelcomeChats }

StoreClearwelcomeUpdates == { Update(c, Some(42), <<>>, None) : c \in WelcomeChats }

StoreJoinUpdates == { JoinUpdate(c, <<Alice>>) : c \in WelcomeChats }

NextStore ==
    \/ \E u \in StoreWarnUpdates : FrameWarns < MaxFrameWarns /\ WarnStart("w1", u)
    \/ \E m \in ConcLookups, s \in SaveResults : WarnAuth("w1", m, s)
    \/ \E u \in StoreSetwelcomeUpdates : SetwelcomeStart("w1", u)
    \/ \E m \in ConcLookups, s \in SaveResults : SetwelcomeAuth("w1", m, s)
    \/ \E u \in StoreClearwelcomeUpdates : ClearwelcomeStart("w1", u)
    \/ \E m \in ConcLookups, s \in SaveResults : ClearwelcomeAuth("w1", m, s)
    \/ \E u \in StoreJoinUpdates : FrameSent < MaxFrameSent /\ WelcomeStart("w1", u)
    \/ \E r \in CallResults : WelcomeDeleteDone("w1", r)
    \/ \E r \in CallResults, s \in SaveResults : WelcomeSendDone("w1", r, s)
    \/ \E r \in CallResults : ReplyReturnDone("w1", r)
    \/ Restart

SpecStore == Init /\ [][NextStore]_vars

(***************************************************************************)
(* SpecWarnConc: warn, setwelcome and join handlers on two workers,        *)
(* interleaved at their awaits; every save succeeds.                       *)
(***************************************************************************)
WarnConcUpdates ==
    { Update(c, Some(42), <<Str(<<"5">>)>>, r) :
        c \in WelcomeChats, r \in {None, Message(7, None)} }

WarnConcSetwelcomeUpdates == { Update(c, Some(42), <<WordHi>>, None) : c \in WelcomeChats }

NextWarnConc ==
    \E w \in Workers :
        \/ \E u \in WarnConcUpdates : FrameWarns < MaxFrameWarns /\ WarnStart(w, u)
        \/ \E m \in ConcLookups : WarnAuth(w, m, "ok")
        \/ \E u \in WarnConcSetwelcomeUpdates : SetwelcomeStart(w, u)
        \/ \E m \in ConcLookups : SetwelcomeAuth(w, m, "ok")
        \/ \E u \in StoreJoinUpdates : FrameSent < MaxFrameSent /\ WelcomeStart(w, u)
        \/ \E r \in CallResults : WelcomeDeleteDone(w, r)
        \/ \E r \in CallResults : WelcomeSendDone(w, r, "ok")
        \/ \E r \in CallResults : ReplyReturnDone(w, r)

SpecWarnConc == Init /\ [][NextWarnConc]_vars

(***************************************************************************)
(* SpecAuth: check_issuer_permission applied to every role the platform    *)
(* can report and every capability.                                        *)
(***************************************************************************)
Statuses == {"member", "administrator", "creator", "left", "kicked"}

Needs == {"ban", "kick", "mute", "delete"}

AuthMembers ==
    {LookupError}
    \cup {ChatMember(st, a) : st \in Statuses,
              a \in {NoAttrs} \cup {AdminAttrs(r, d) : r, d \in BOOLEAN}}

InitAuth ==
    /\ task = [w \in Workers |-> IdleTask]
    /\ DISK = FileAbsent
    /\ STORE = load_store(FileAbsent)
    /\ BLACKLIST = {}
    /\ platform = [c \in Chats |-> [sent |-> <<>>, delete_asked |-> {}]]
    /\ history = [warned |-> EmptyDict, last_owner_op |-> EmptyDict]
    /\ probe \in {[fn |-> "check_issuer_permission", member |-> m, need |-> n,
                   result |-> None] : m \in AuthMembers, n \in Needs}

CheckPermission ==
    /\ probe # None
    /\ probe.fn = "check_issuer_permission"
    /\ probe.result = None
    /\ probe' = [probe EXCEPT !.result = check_issuer_permission(probe.member, probe.need)]
    /\ UNCHANGED <<task, STORE, DISK, BLACKLIST, platform, history>>

NextAuth == CheckPermission

SpecAuth == InitAuth /\ [][NextAuth]_vars

(***************************************************************************)
(* SpecDur: parse_duration applied to one input.  The input is built from  *)
(* a magnitude, a unit token in some letter case and the whitespace around *)
(* them, or is a string outside the grammar, the empty string or None.     *)
(***************************************************************************)
\* str.upper() on one character
UpperChar(c) ==
    IF \E i \in 1..Len(LowerChars) : LowerChars[i] = c
    THEN UpperChars[CHOOSE i \in 1..Len(LowerChars) : LowerChars[i] = c]
    ELSE c

LetterCases == {"lower", "upper", "title"}

Cased(s, case) ==
    [i \in 1..Len(s) |->
        IF case = "upper" \/ (case = "title" /\ i = 1) THEN UpperChar(s[i]) ELSE s[i]]

DurMagnitudes == {0, 1, 7, 90, 1441}

HugeMagnitude == 1000000000

DurGaps == {<<>>, <<" ">>}

DurPads == {<<>>, <<" ">>}

DurInput(mag, unit, case, gap, pad) ==
    [fn |-> "parse_duration",
     s |-> Str(pad \o NatDigits(mag) \o gap \o Cased(unit, case) \o pad),
     valid |-> TRUE, magnitude |-> mag, unit |-> unit,
     done |-> FALSE, result |-> None]

BadInput(s) ==
    [fn |-> "parse_duration", s |-> s, valid |-> FALSE, magnitude |-> 0,
     unit |-> <<>>, done |-> FALSE, result |-> None]

BadDurations ==
    { None, Str(<<>>), Str(<<" ">>), Str(<<"a", "b", "c">>), Str(<<"m">>),
      Str(<<"1", "0", "x">>), Str(<<"1", "0", "m", "m">>), Str(<<"-", "5">>),
      Str(<<"+", "5", "s">>), Str(<<"1", ".", "5", "h">>), Str(<<"5", " ", "5">>),
      Str(<<"1", "0", "m", " ", "s">>), Str(<<"1", "0", "m", "i">>),
      Str(<<"h", "5">>), Str(<<"5", "d", "a", "y", "z">>) }

DurInputs ==
    {DurInput(mag, unit, case, gap, <<>>) :
        mag \in DurMagnitudes, unit \in UnitTokens, case \in LetterCases, gap \in DurGaps}
    \cup {DurInput(mag, unit, "lower", <<>>, <<" ">>) :
              mag \in DurMagnitudes, unit \in UnitTokens}
    \cup {DurInput(mag, <<>>, "lower", <<>>, pad) : mag \in DurMagnitudes, pad \in DurPads}
    \cup {DurInput(HugeMagnitude, unit, "lower", <<>>, <<>>) :
              unit \in {<<>>, <<"s">>, <<"d">>, <<"d", "a", "y", "s">>}}
    \cup {BadInput(s) : s \in BadDurations}

InitDur ==
    /\ task = [w \in Workers |-> IdleTask]
    /\ DISK = FileAbsent
    /\ STORE = load_store(FileAbsent)
    /\ BLACKLIST = {}
    /\ platform = [c \in Chats |-> [sent |-> <<>>, delete_asked |-> {}]]
    /\ history = [warned |-> EmptyDict, last_owner_op |-> EmptyDict]
    /\ probe \in DurInputs

ParseDuration ==
    /\ probe # None
    /\ probe.fn = "parse_duration"
    /\ ~probe.done
    /\ probe' = [probe EXCEPT !.done = TRUE, !.result = parse_duration(probe.s)]
    /\ UNCHANGED <<task, STORE, DISK, BLACKLIST, platform, history>>

NextDur == ParseDuration

SpecDur == InitDur /\ [][NextDur]_vars

(***************************************************************************)
(* SpecPerms: make_chat_permissions_from_dict applied to one of the two    *)
(* dicts the commands pass, against one parameter set of ChatPermissions.  *)
(***************************************************************************)
TypeError == [tag |-> "TypeError"]

\* ChatPermissions(**kwargs) against the parameters the class takes
Construct(kwargs, valid_params) ==
    IF DOMAIN kwargs \subseteq valid_params THEN ChatPermissions(kwargs) ELSE TypeError

\* the alt dict of the except branch: media renamed to other when perms has no other
AltPerms(perms) ==
    LET moved == "can_send_media_messages" \in DOMAIN perms
                 /\ "can_send_other_messages" \notin DOMAIN perms
        keys == IF moved
                THEN (DOMAIN perms \ {"can_send_media_messages"})
                         \cup {"can_send_other_messages"}
                ELSE DOMAIN perms
    IN  [k \in keys |->
            IF moved /\ k = "can_send_other_messages"
            THEN perms["can_send_media_messages"]
            ELSE perms[k]]

\* the except branch taken when signature(ChatPermissions) raises
make_chat_permissions_fallback(perms, valid_params) ==
    IF Construct(perms, valid_params) # TypeError THEN Construct(perms, valid_params)
    ELSE IF Construct(AltPerms(perms), valid_params) # TypeError
         THEN Construct(AltPerms(perms), valid_params)
         ELSE ChatPermissions([k \in {} |-> FALSE])

\* parameter sets of ChatPermissions across library versions: canonical flags
\* withdrawn, newer flags added
WithdrawnFlags ==
    {"can_send_media_messages", "can_send_polls", "can_add_web_page_previews"}

AddedFlags == {"can_send_audios", "can_send_photos", "can_manage_topics"}

ParamSets ==
    {(CanonicalFlags \ gone) \cup added :
        gone \in SUBSET WithdrawnFlags, added \in SUBSET AddedFlags}

InitPerms ==
    /\ task = [w \in Workers |-> IdleTask]
    /\ DISK = FileAbsent
    /\ STORE = load_store(FileAbsent)
    /\ BLACKLIST = {}
    /\ platform = [c \in Chats |-> [sent |-> <<>>, delete_asked |-> {}]]
    /\ history = [warned |-> EmptyDict, last_owner_op |-> EmptyDict]
    /\ probe \in {[fn |-> "make_chat_permissions_from_dict", caller |-> c,
                   valid_params |-> vp, signature_raises |-> sr,
                   done |-> FALSE, result |-> None] :
                     c \in {"mute", "unmute"}, vp \in ParamSets, sr \in BOOLEAN}

MapPermissions ==
    /\ probe # None
    /\ probe.fn = "make_chat_permissions_from_dict"
    /\ ~probe.done
    /\ LET perms == IF probe.caller = "mute" THEN CANONICAL_PERMS ELSE UnmutePerms
       IN  probe' = [probe EXCEPT
               !.done = TRUE,
               !.result = IF probe.signature_raises
                          THEN make_chat_permissions_fallback(perms, probe.valid_params)
                          ELSE make_chat_permissions_from_dict(perms,
                                                               probe.valid_params)]
    /\ UNCHANGED <<task, STORE, DISK, BLACKLIST, platform, history>>

NextPerms == MapPermissions

SpecPerms == InitPerms /\ [][NextPerms]_vars

(***************************************************************************)
(* The blacklist commands.  Each runs without an await up to its reply, so *)
(* one step takes it from dispatch to the reply it awaits.                 *)
(***************************************************************************)
\* the account ids the deployer writes into BOT_ADMINS
BOT_ADMINS == {42}

is_bot_owner(user_id) == user_id \in BOT_ADMINS

MsgNotAuthorized == "You are not authorized to use this command."

MsgUidInteger == "User id must be integer."

\* a blacklist command from dispatch to its reply; update.effective_user.id
\* raises when the update has no user
OwnerCommand(w, kind, u, reply, blacklist, op) ==
    /\ task[w].pc = "idle"
    /\ LET t == [IdleTask EXCEPT !.kind = kind, !.update = u, !.outcome = "running"]
       IN  task' = [task EXCEPT ![w] =
               IF u.user = None THEN Raise(t) ELSE Issue(t, reply, "reply_return")]
    /\ BLACKLIST' = IF u.user = None THEN BLACKLIST ELSE blacklist
    /\ history' = IF op = None THEN history
                  ELSE [history EXCEPT !.last_owner_op = DictSet(@, op.v[1], op.v[2])]
    /\ UNCHANGED <<STORE, DISK, platform, probe>>

\* the operation an owner's command with an integer argument asks for
OwnerOp(kind, u) ==
    IF u.user # None /\ u.user.v \in BOT_ADMINS /\ u.args # <<>>
       /\ ParseInt(u.args[1]) # None
    THEN Some(<<ParseInt(u.args[1]).v, kind>>)
    ELSE None

\* blacklist_cmd without the owner test
BlacklistCmd_no_gate(w, u) ==
    LET uid == ParseInt(u.args[1])
    IN  IF u.args = <<>>
        THEN OwnerCommand(w, "blacklist", u,
                          Reply("Usage: /blacklist <user_id>", None, None),
                          BLACKLIST, None)
        ELSE IF uid = None
        THEN OwnerCommand(w, "blacklist", u, Reply(MsgUidInteger, None, None),
                          BLACKLIST, None)
        ELSE OwnerCommand(w, "blacklist", u, Reply("User {uid} blacklisted.", uid, None),
                          BLACKLIST \cup {uid.v}, OwnerOp("blacklist", u))

BlacklistCmd(w, u) ==
    LET uid == ParseInt(u.args[1])
    IN  IF u.user # None /\ ~is_bot_owner(u.user.v)
        THEN OwnerCommand(w, "blacklist", u, Reply(MsgNotAuthorized, None, None),
                          BLACKLIST, None)
        ELSE IF u.args = <<>>
        THEN OwnerCommand(w, "blacklist", u,
                          Reply("Usage: /blacklist <user_id>", None, None),
                          BLACKLIST, None)
        ELSE IF uid = None
        THEN OwnerCommand(w, "blacklist", u, Reply(MsgUidInteger, None, None),
                          BLACKLIST, None)
        ELSE OwnerCommand(w, "blacklist", u, Reply("User {uid} blacklisted.", uid, None),
                          BLACKLIST \cup {uid.v}, OwnerOp("blacklist", u))

UnblacklistCmd(w, u) ==
    LET uid == ParseInt(u.args[1])
    IN  IF u.user # None /\ ~is_bot_owner(u.user.v)
        THEN OwnerCommand(w, "unblacklist", u, Reply(MsgNotAuthorized, None, None),
                          BLACKLIST, None)
        ELSE IF u.args = <<>>
        THEN OwnerCommand(w, "unblacklist", u,
                          Reply("Usage: /unblacklist <user_id>", None, None),
                          BLACKLIST, None)
        ELSE IF uid = None
        THEN OwnerCommand(w, "unblacklist", u, Reply(MsgUidInteger, None, None),
                          BLACKLIST, None)
        ELSE OwnerCommand(w, "unblacklist", u,
                          Reply("User {uid} removed from blacklist.", uid, None),
                          BLACKLIST \ {uid.v}, OwnerOp("unblacklist", u))

ListBlacklistCmd(w, u) ==
    IF u.user # None /\ ~is_bot_owner(u.user.v)
    THEN OwnerCommand(w, "list_blacklist", u, Reply(MsgNotAuthorized, None, None),
                      BLACKLIST, None)
    ELSE IF BLACKLIST # {}
    THEN OwnerCommand(w, "list_blacklist", u,
                      Reply("Blacklist: {ids}", None, Some(BLACKLIST)), BLACKLIST, None)
    ELSE OwnerCommand(w, "list_blacklist", u, Reply("Blacklist empty.", None, None),
                      BLACKLIST, None)

OwnerArgs ==
    {<<>>, <<Str(<<"5">>)>>, <<Str(<<"7">>)>>, <<Str(<<" ", "-", "3">>)>>,
     <<Str(<<"a", "b", "c">>)>>, <<Str(<<"5">>), Str(<<"7">>)>>}

OwnerUpdates ==
    {Update(c, user, args, None) :
        c \in ModChats, user \in {Some(42), Some(7), None}, args \in OwnerArgs}

NextOwner ==
    \/ \E u \in OwnerUpdates : BlacklistCmd("w1", u)
    \/ \E u \in OwnerUpdates : UnblacklistCmd("w1", u)
    \/ \E u \in OwnerUpdates : ListBlacklistCmd("w1", u)
    \/ \E r \in CallResults : ReplyReturnDone("w1", r)

SpecOwner == Init /\ [][NextOwner]_vars

(***************************************************************************)
(* Claims.                                                                 *)
(***************************************************************************)
MutationOps == {"ban_chat_member", "unban_chat_member", "restrict_chat_member"}

HasOp(trace, ops) == \E i \in 1..Len(trace) : trace[i].op \in ops

\* the role lookup answered creator, or administrator with can_restrict_members
RestrictAuthorised(member) ==
    /\ member # None
    /\ member # LookupError
    /\ \/ member.status = "creator"
       \/ /\ member.status = "administrator"
          /\ "can_restrict_members" \in DOMAIN member.attrs
          /\ member.attrs["can_restrict_members"]

\* C1: a moderation command whose own role lookup did not answer creator, or
\* administrator with can_restrict_members, has issued no ban, unban or
\* restrict call and no save, and none of its steps changes the document or
\* the file; every change of the warn counters is made by a warn command
\* whose lookup answered so.
C1_OnlyAuthorisedMutate ==
    [][ /\ \A w \in Workers :
              (task'[w].kind \in ModKinds /\ ~RestrictAuthorised(task'[w].member))
                  => /\ ~HasOp(task'[w].trace, MutationOps \cup {"save_store"})
                     /\ task'[w] # task[w] => UNCHANGED <<STORE, DISK>>
        /\ (STORE' # STORE \/ DISK' # DISK)
              => \E w \in Workers :
                    /\ task'[w] # task[w]
                    /\ task'[w].kind = "warn"
                    /\ RestrictAuthorised(task'[w].member) ]_vars

C1_Witness ==
    \E w \in Workers :
        /\ task[w].kind \in ModKinds
        /\ HasOp(task[w].trace, MutationOps)
        /\ task[w].member # None
        /\ task[w].member.status = "administrator"

\* the decision the authorization rules prescribe
ExpectedDecision(member, need) ==
    IF member = LookupError THEN Deny(MsgFetchFailed)
    ELSE LET restrict == GetAttrBool(member, "can_restrict_members")
             delete == GetAttrBool(member, "can_delete_messages")
         IN  CASE member.status = "creator" -> Allow
               [] member.status \notin {"creator", "administrator"} -> Deny(MsgMustBeAdmin)
               [] member.status = "administrator" /\ need \in {"ban", "kick", "mute"} ->
                      IF restrict THEN Allow ELSE Deny(MsgNoRestrict)
               [] member.status = "administrator" /\ need = "delete" ->
                      IF delete THEN Allow ELSE Deny(MsgNoDelete)

\* C2: check_issuer_permission allows a creator whatever the flags, denies
\* every status other than creator and administrator, denies an administrator
\* without can_restrict_members for ban, kick and mute, denies an administrator
\* without can_delete_messages for delete whatever can_restrict_members is,
\* allows an administrator otherwise, and denies when the lookup failed.
C2_DecisionTable ==
    (probe # None /\ probe.fn = "check_issuer_permission" /\ probe.result # None)
        => probe.result = ExpectedDecision(probe.member, probe.need)

C2_Witness ==
    /\ probe # None
    /\ probe.fn = "check_issuer_permission"
    /\ probe.need = "delete"
    /\ probe.member # LookupError
    /\ probe.member.status = "administrator"
    /\ GetAttrBool(probe.member, "can_restrict_members")
    /\ ~GetAttrBool(probe.member, "can_delete_messages")
    /\ probe.result = Deny(MsgNoDelete)

\* the user ids a command can name as its target
TargetIds == {0, 5, 7}

\* the warn command of worker w takes the step that increments the counter
WarnIncrements(w) ==
    /\ task[w].kind = "warn"
    /\ task[w].pc = "get_chat_member"
    /\ task'[w].pc = "reply_return"
    /\ task'[w].target # None

LastCall(t) == t.trace[Len(t.trace)]

HasCount(store, c, u) ==
    /\ PyStr(c) \in DOMAIN store.warns
    /\ PyStr(u) \in DOMAIN store.warns[PyStr(c)]

\* C3: the stored count of a pair is the number of warns on it that reached
\* the increment (no entry for a pair never warned); such a warn raises the
\* count of its pair by exactly 1 and reports the new count, 1 for a pair
\* with no stored count; no step lowers or removes a stored count.
C3_WarnCounts ==
    /\ [](\A c \in Chats, u \in TargetIds :
             /\ WarnCount(STORE, c, u) = DictGet(history.warned, <<c, u>>, 0)
             /\ HasCount(STORE, c, u) <=> <<c, u>> \in DOMAIN history.warned)
    /\ [][ /\ \A w \in Workers :
                 WarnIncrements(w) =>
                    LET c == task'[w].update.chat
                        u == task'[w].target.v
                    IN  /\ WarnCount(STORE', c, u) = WarnCount(STORE, c, u) + 1
                        /\ ~HasCount(STORE, c, u) => WarnCount(STORE', c, u) = 1
                        /\ LastCall(task'[w]).args.extra = Some(WarnCount(STORE', c, u))
                        /\ LastCall(task'[w]).args.extra.v = history'.warned[<<c, u>>]
           /\ \A c \in Chats, u \in TargetIds :
                 HasCount(STORE, c, u) =>
                    /\ HasCount(STORE', c, u)
                    /\ WarnCount(STORE', c, u) >= WarnCount(STORE, c, u) ]_vars

C3_Witness ==
    \E w \in Workers :
        /\ task[w].kind = "warn"
        /\ task[w].pc = "reply_return"
        /\ task[w].target # None
        /\ WarnCount(STORE, task[w].update.chat, task[w].target.v) = 2
        /\ LastCall(task[w]).args.extra = Some(2)

\* the positions in a trace of the calls of an operation, of the replies of a text
Calls(trace, op) == {i \in 1..Len(trace) : trace[i].op = op}

Replies(trace, text) ==
    {i \in 1..Len(trace) : trace[i].op = "reply_text" /\ trace[i].args.text = text}

\* kick's ban succeeded and its unban failed
KickHalfDone(t) ==
    /\ t.kind = "kick"
    /\ \E i \in Calls(t.trace, "ban_chat_member") : t.trace[i].res = "ok"
    /\ \E i \in Calls(t.trace, "unban_chat_member") : t.trace[i].res = "fail"

\* C9: in a kick, unban is issued only after a ban of the same target in the
\* same chat succeeded; the success reply is issued only after both calls
\* succeeded; once ban has succeeded and unban failed, the command has issued
\* one failure reply, no success reply and no other ban, unban or restrict
\* call, and its next step ends it.
C9_KickOrder ==
    /\ [](\A w \in Workers :
             LET t == task[w]
             IN  t.kind = "kick" =>
                    /\ \A i \in Calls(t.trace, "unban_chat_member") :
                          \E j \in Calls(t.trace, "ban_chat_member") :
                              /\ j < i
                              /\ t.trace[j].res = "ok"
                              /\ t.trace[j].args.user_id = t.trace[i].args.user_id
                              /\ t.trace[j].args.chat = t.trace[i].args.chat
                              /\ t.trace[i].args.user_id = t.target.v
                    /\ \A i \in Replies(t.trace, SuccessText("kick")) :
                          /\ \E j \in Calls(t.trace, "ban_chat_member") :
                                j < i /\ t.trace[j].res = "ok"
                          /\ \E j \in Calls(t.trace, "unban_chat_member") :
                                j < i /\ t.trace[j].res = "ok"
                    /\ KickHalfDone(t) =>
                          /\ Cardinality(Replies(t.trace, FailText("kick"))) = 1
                          /\ Replies(t.trace, SuccessText("kick")) = {}
                          /\ Cardinality({i \in 1..Len(t.trace) :
                                             t.trace[i].op \in MutationOps}) = 2)
    /\ [][\A w \in Workers :
             (KickHalfDone(task[w]) /\ task'[w] # task[w]) => task'[w].pc = "idle"]_vars

C9_Witness ==
    \E w \in Workers :
        /\ KickHalfDone(task[w])
        /\ task[w].pc = "reply_return"
        /\ LastCall(task[w]).args.text = FailText("kick")

\* C10 as claimed: the ban call of a ban command with a second argument
\* carries now + parse_duration(argument) when parse_duration is not None,
\* and no expiry when it is None or there is no second argument.
C10_ExpiryIffParsed ==
    \A w \in Workers :
        LET t == task[w]
        IN  (t.kind = "ban" /\ t.pc = "ban_chat_member") =>
               IF Len(t.update.args) >= 2 /\ parse_duration(t.update.args[2]) # None
               THEN \E now \in Nows :
                       LastCall(t).args.until_date
                           = DatetimeAdd(now, parse_duration(t.update.args[2]))
               ELSE LastCall(t).args.until_date = None

\* the last_welcome_message_id of a chat, None without a record
Pointer(store, c) ==
    IF PyStr(c) \in DOMAIN store.welcomes
    THEN store.welcomes[PyStr(c)].last_welcome_message_id
    ELSE None

Configured(store, c) == PyStr(c) \in DOMAIN store.welcomes

\* worker w resumes from the await named pc
Resumes(w, kind, pc) ==
    /\ task[w].kind = kind
    /\ task[w].pc = pc
    /\ task'[w] # task[w]

\* C4 as claimed: a welcome handler about to send for a joining member has
\* asked for the deletion of the message whose id the record holds (none is
\* held for the first send after configure), and when the send succeeds one
\* message has been sent and the record holds its id.
C4_DeleteStoredThenSend ==
    /\ [](\A w \in Workers :
             (task[w].kind = "welcome" /\ task[w].pc = "send_message") =>
                LET c == task[w].update.chat
                IN  IdTruthy(Pointer(STORE, c)) =>
                       /\ Pointer(STORE, c).v \in platform[c].delete_asked
                       /\ \E i \in Calls(task[w].trace, "delete_message") :
                             task[w].trace[i].args.message_id = Pointer(STORE, c).v)
    /\ [][\A w \in Workers :
             (Resumes(w, "welcome", "send_message")
                 /\ platform'[task[w].update.chat].sent
                        # platform[task[w].update.chat].sent) =>
                LET c == task[w].update.chat
                IN  /\ Len(platform'[c].sent) = Len(platform[c].sent) + 1
                    /\ Configured(STORE, c) =>
                          Pointer(STORE', c)
                              = Some(platform'[c].sent[Len(platform'[c].sent)])]_vars

JoinDispatched(w) ==
    /\ task[w].pc = "idle"
    /\ task'[w] # task[w]
    /\ task'[w].kind = "welcome"

\* C6: a join event dispatched while its chat has no welcome record ends in
\* its first step, with no message sent, no deletion asked and the document
\* and the file unchanged; a welcome handler is in flight only for a chat
\* that had a record when the event was dispatched.
C6_NoRecordNoWelcome ==
    [][\A w \in Workers :
          JoinDispatched(w) =>
             /\ task'[w].pc # "idle" => Configured(STORE, task'[w].update.chat)
             /\ (\A c \in WelcomeChats : ~Configured(STORE, c)) => task'[w].pc = "idle"
             /\ task'[w].pc = "idle" =>
                   /\ task'[w].outcome = "returned"
                   /\ UNCHANGED <<STORE, DISK, platform>>]_vars

C6_Witness ==
    \E c \in WelcomeChats :
        /\ task["w1"].kind = "welcome"
        /\ task["w1"].pc = "idle"
        /\ task["w1"].outcome = "returned"
        /\ ~Configured(STORE, c)
        /\ platform[c].sent # <<>>

MsgNoWelcome == "No welcome configured."

\* the role lookup answered administrator or creator
AdminOrCreator(member) ==
    /\ member # None
    /\ member # LookupError
    /\ member.status \in {"administrator", "creator"}

\* C7: a clearwelcome of an administrator or creator on a chat with no record
\* leaves the document and the file unchanged, saves nothing, raises nothing
\* and goes on to reply with the notice, after which the handler ends with
\* the document still unchanged.  A clearwelcome that finds a record removes
\* it, so that a second one in a row finds none.
C7_ClearIdempotent ==
    [][\A w \in Workers :
          /\ Resumes(w, "clearwelcome", "get_chat_member") =>
                task'[w].outcome = "running"
          /\ (Resumes(w, "clearwelcome", "get_chat_member")
                 /\ AdminOrCreator(task'[w].member)) =>
                LET c == task[w].update.chat
                IN  /\ ~Configured(STORE', c)
                    /\ ~Configured(STORE, c) =>
                          /\ UNCHANGED <<STORE, DISK>>
                          /\ ~HasOp(task'[w].trace, {"save_store"})
                          /\ task'[w].pc = "reply_return"
                          /\ task'[w].outcome = "running"
                          /\ LastCall(task'[w]).args.text = MsgNoWelcome
          /\ (Resumes(w, "clearwelcome", "reply_return")
                 /\ LastCall(task[w]).args.text = MsgNoWelcome) =>
                /\ task'[w].pc = "idle"
                /\ UNCHANGED <<STORE, DISK>>]_vars

C7_Witness ==
    \E w \in Workers, c \in WelcomeChats :
        /\ task[w].kind = "clearwelcome"
        /\ task[w].pc = "reply_return"
        /\ LastCall(task[w]).args.text = MsgNoWelcome
        /\ ~Configured(STORE, c)
        /\ DISK.tag = "json"
        /\ ~Configured(DISK.doc, c)

SaveCount(trace) == Cardinality(Calls(trace, "save_store"))

\* C8: when the send of a welcome message fails, the document (so the
\* last_welcome_message_id) and the file are left as they were, no save is
\* made, and the handler does not send again for that member: it goes on to
\* the next member or ends.
C8_SendFailureKeepsPointer ==
    [][\A w \in Workers :
          (Resumes(w, "welcome", "send_message")
              /\ platform'[task[w].update.chat].sent
                     = platform[task[w].update.chat].sent) =>
             /\ UNCHANGED <<STORE, DISK>>
             /\ \/ task'[w].pc = "idle"
                \/ /\ task'[w].idx = task[w].idx + 1
                   /\ SaveCount(task'[w].trace) = SaveCount(task[w].trace)]_vars

C8_Witness ==
    \E w \in Workers :
        /\ task[w].kind = "welcome"
        /\ task[w].pc # "idle"
        /\ \E i \in Calls(task[w].trace, "send_message") : task[w].trace[i].res = "fail"
        /\ IdTruthy(Pointer(STORE, task[w].update.chat))

\* what mute_cmd is asked for: a target (a reply, or an integer first argument
\* followed by a duration argument) and the duration argument, None when absent
MuteTargetResolves(u) ==
    \/ u.reply_to_message # None
    \/ Len(u.args) >= 2 /\ ParseInt(u.args[1]) # None

MuteDurationArg(u) ==
    IF u.reply_to_message # None
    THEN IF u.args # <<>> THEN u.args[1] ELSE None
    ELSE IF Len(u.args) >= 2 THEN u.args[2] ELSE None

\* C11 as claimed: in an authorized mute, past the role lookup: one argument
\* and no reply give the ambiguity error; otherwise a restrict call has been
\* issued exactly when the target resolves and parse_duration of the duration
\* argument is not None, and it carries the full-mute permissions and
\* now + duration; when the target resolves and the duration is missing or
\* parses to None the reply is the invalid-duration error.
C11_MuteContract ==
    \A w \in Workers :
        LET t == task[w]
            u == t.update
            restricts == Calls(t.trace, "restrict_chat_member")
        IN  (t.kind = "mute" /\ t.member # None
             /\ check_issuer_permission(t.member, "mute").allow) =>
               IF u.reply_to_message = None /\ Len(u.args) = 1
               THEN /\ Replies(t.trace, MsgMuteAmbiguous) # {}
                    /\ restricts = {}
               ELSE /\ restricts # {} <=>
                          /\ MuteTargetResolves(u)
                          /\ parse_duration(MuteDurationArg(u)) # None
                    /\ \A i \in restricts :
                          /\ \E vp \in ParamSchemas :
                                t.trace[i].args.permissions
                                    = build_full_mute_permissions(vp)
                          /\ \E now \in Nows :
                                t.trace[i].args.until_date
                                    = DatetimeAdd(now,
                                                  parse_duration(MuteDurationArg(u)))
                    /\ (MuteTargetResolves(u)
                        /\ parse_duration(MuteDurationArg(u)) = None) =>
                          /\ Replies(t.trace, MsgInvalidDuration) # {}
                          /\ restricts = {}

\* the seconds in one unit of the vocabulary; no unit counts seconds
UnitSeconds(unit) ==
    IF unit \in {<<>>, <<"s">>, <<"s","e","c">>, <<"s","e","c","s">>,
                 <<"s","e","c","o","n","d">>, <<"s","e","c","o","n","d","s">>}
    THEN 1
    ELSE IF unit \in {<<"m">>, <<"m","i","n">>, <<"m","i","n","s">>,
                      <<"m","i","n","u","t","e">>, <<"m","i","n","u","t","e","s">>}
    THEN 60
    ELSE IF unit \in {<<"h">>, <<"h","r">>, <<"h","r","s">>,
                      <<"h","o","u","r">>, <<"h","o","u","r","s">>}
    THEN 3600
    ELSE 86400

\* C12 as claimed: parse_duration never raises; on a magnitude followed by a
\* unit token of the vocabulary in any letter case, or by no unit, it returns
\* the span of magnitude seconds, minutes, hours or days; on a string
\* outside the grammar, the empty string and None it returns None.
C12_ParseDuration ==
    (probe # None /\ probe.fn = "parse_duration" /\ probe.done) =>
        /\ probe.result # OverflowError
        /\ IF probe.valid
           THEN /\ probe.result # None
                /\ probe.result.days * SecondsPerDay + probe.result.seconds
                       = probe.magnitude * UnitSeconds(probe.unit)
           ELSE probe.result = None

\* C13 as claimed: for every parameter set the mapper returns a
\* ChatPermissions; the one built for mute has the eight canonical flags
\* false and no flag true; the one built for unmute has can_change_info and
\* can_pin_messages false and the other six canonical flags true.
C13_CannedPermissions ==
    (probe # None /\ probe.fn = "make_chat_permissions_from_dict" /\ probe.done) =>
        /\ probe.result.tag = "ChatPermissions"
        /\ LET flags == probe.result.flags
           IN  IF probe.caller = "mute"
               THEN /\ \A f \in CanonicalFlags : f \in DOMAIN flags /\ ~flags[f]
                    /\ \A f \in DOMAIN flags : ~flags[f]
               ELSE \A f \in CanonicalFlags :
                       /\ f \in DOMAIN flags
                       /\ flags[f] <=> f \notin {"can_change_info", "can_pin_messages"}

OwnerKinds == {"blacklist", "unblacklist", "list_blacklist"}

\* C14: a user id is blacklisted exactly when the last blacklist or
\* unblacklist command on it that came from an owner with an integer
\* argument was a blacklist (none at startup); a step changes the set only
\* when it dispatches such a command; a blacklist, unblacklist or
\* list_blacklist command from a user outside the owner set leaves the set
\* unchanged and replies only that the user is not authorized.
C14_OwnerGatedBlacklist ==
    /\ [](/\ \A uid \in BLACKLIST \cup DOMAIN history.last_owner_op :
                uid \in BLACKLIST <=>
                    /\ uid \in DOMAIN history.last_owner_op
                    /\ history.last_owner_op[uid] = "blacklist"
          /\ \A w \in Workers :
                LET t == task[w]
                IN  (t.kind \in OwnerKinds /\ t.update # None
                     /\ t.update.user.v \notin BOT_ADMINS) =>
                       \A i \in 1..Len(t.trace) :
                           /\ t.trace[i].op = "reply_text"
                           /\ t.trace[i].args
                                  = [text |-> MsgNotAuthorized, target |-> None,
                                     extra |-> None])
    /\ [][BLACKLIST' # BLACKLIST =>
             \E w \in Workers :
                 /\ task[w].pc = "idle"
                 /\ task'[w].kind \in {"blacklist", "unblacklist"}
                 /\ task'[w].update.user.v \in BOT_ADMINS
                 /\ task'[w].update.args # <<>>
                 /\ ParseInt(task'[w].update.args[1]) # None
                 /\ LET uid == ParseInt(task'[w].update.args[1]).v
                    IN  BLACKLIST' = IF task'[w].kind = "blacklist"
                                     THEN BLACKLIST \cup {uid}
                                     ELSE BLACKLIST \ {uid}]_vars

\* an owner has blacklisted and unblacklisted 5, then a user outside the
\* owner set asks for the list while 7 is blacklisted
C14_Witness ==
    /\ BLACKLIST = {7}
    /\ 5 \in DOMAIN history.last_owner_op
    /\ history.last_owner_op[5] = "unblacklist"
    /\ \E w \in Workers :
          /\ task[w].kind = "list_blacklist"
          /\ task[w].pc = "reply_return"
          /\ task[w].update.user = Some(7)

\* no reply, and no argument or a first argument that is not an integer
Unresolved(u) ==
    /\ u.reply_to_message = None
    /\ u.args = <<>> \/ ParseInt(u.args[1]) = None

\* the author of the replied-to message, else the integer of the first argument
ExpectedTarget(u) ==
    IF u.reply_to_message # None THEN u.reply_to_message.from_user
    ELSE ParseInt(u.args[1]).v

UsageErrors(kind) ==
    IF kind = "mute" THEN {MsgMuteUsage, MsgMuteAmbiguous, MsgMuteNumeric}
    ELSE {Usage(kind), MsgNumeric}

\* a moderation command past its permission check
Permitted(t) ==
    /\ t.kind \in ModKinds
    /\ t.member # None
    /\ check_issuer_permission(t.member, Need(t.kind)).allow

\* C15: a permitted kick, ban, unban, mute, unmute or warn whose target is
\* unresolved (no reply and no argument, or a non-integer first argument)
\* has issued one reply, a usage error, and no ban, unban, restrict or save,
\* and the document and the file are unchanged by it; when the target is
\* resolved every ban, unban and restrict call and the warn carry the author
\* of the replied-to message, or without a reply the integer value of the
\* first argument.
C15_TargetResolution ==
    /\ [](\A w \in Workers :
             LET t == task[w]
                 u == t.update
             IN  Permitted(t) =>
                    IF Unresolved(u)
                    THEN /\ Len(t.trace) = 2
                         /\ t.trace[2].op = "reply_text"
                         /\ t.trace[2].args.text \in UsageErrors(t.kind)
                    ELSE /\ t.target \in {None, Some(ExpectedTarget(u))}
                         /\ \A i \in 1..Len(t.trace) :
                               /\ t.trace[i].op \in MutationOps =>
                                     t.trace[i].args.user_id = ExpectedTarget(u)
                               /\ t.trace[i].op = "save_store" =>
                                     /\ t.target = Some(ExpectedTarget(u))
                                     /\ LastCall(t).args.target = t.target)
    /\ [][STORE' # STORE \/ DISK' # DISK =>
             \E w \in Workers :
                 LET t == task'[w]
                 IN  /\ Permitted(t)
                     /\ ~Unresolved(t.update)
                     /\ STORE' = Warned(STORE, t.update.chat, ExpectedTarget(t.update))]_vars

\* a permitted warn with a non-integer argument and no reply awaits its usage error
C15_Witness ==
    \E w \in Workers :
        /\ Permitted(task[w])
        /\ task[w].kind = "warn"
        /\ task[w].update.reply_to_message = None
        /\ task[w].update.args # <<>>
        /\ ParseInt(task[w].update.args[1]) = None
        /\ task[w].pc = "reply_return"
        /\ LastCall(task[w]).args.text = MsgNumeric

\* a ban, unban or restrict call of the command has failed
MutationFailed(t) ==
    \E i \in 1..Len(t.trace) : t.trace[i].op \in MutationOps /\ t.trace[i].res = "fail"

\* C16 as claimed: no handler invocation ends with an uncaught exception,
\* whichever platform or store call fails; and a command whose ban, unban or
\* restrict call failed issues no further ban, unban or restrict call and
\* one failure reply.
C16_NoUncaughtException ==
    \A w \in Workers :
        LET t == task[w]
        IN  /\ t.outcome # "raised"
            /\ (t.kind \in ModKinds /\ t.pc # "idle" /\ MutationFailed(t)) =>
                  /\ Cardinality({i \in 1..Len(t.trace) :
                                     /\ t.trace[i].op \in MutationOps
                                     /\ t.trace[i].res = "pending"}) = 0
                  /\ Cardinality(Replies(t.trace, FailText(t.kind))) = 1

ConfigKinds == {"setwelcome", "clearwelcome"}

\* C17: a step of a setwelcome or clearwelcome changes the document or the
\* file only when it resumes from the role lookup and the lookup answered
\* administrator or creator, whatever the capability flags; after a failed
\* lookup or any other status they are unchanged.  A setwelcome of an
\* administrator or creator with a text leaves the chat with the record
\* (text, channel link, no last_welcome_message_id) and the rest of the
\* document unchanged; one with no text changes nothing.
C17_AdminGatedConfig ==
    [][\A w \in Workers :
          (task'[w].kind \in ConfigKinds /\ task'[w] # task[w]) =>
             LET t == task'[w]
                 u == task[w].update
                 key == PyStr(u.chat)
                 p == WelcomeParse(u)
             IN  IF task[w].pc # "get_chat_member"
                 THEN UNCHANGED <<STORE, DISK>>
                 ELSE /\ t.pc = "reply_return"
                      /\ ~AdminOrCreator(t.member) => UNCHANGED <<STORE, DISK>>
                      /\ (AdminOrCreator(t.member) /\ t.kind = "setwelcome") =>
                            IF p.text.chars = <<>>
                            THEN UNCHANGED <<STORE, DISK>>
                            ELSE /\ STORE'.welcomes[key]
                                       = [message |-> p.text,
                                          channel_link |-> p.channel_link,
                                          last_welcome_message_id |-> None]
                                 /\ STORE'.warns = STORE.warns
                                 /\ \A k \in (DOMAIN STORE.welcomes
                                                 \cup DOMAIN STORE'.welcomes) \ {key} :
                                        /\ k \in DOMAIN STORE.welcomes
                                        /\ k \in DOMAIN STORE'.welcomes
                                        /\ STORE'.welcomes[k] = STORE.welcomes[k]
                      /\ (AdminOrCreator(t.member) /\ t.kind = "clearwelcome") =>
                            STORE' = [STORE EXCEPT !.welcomes = DictDel(@, key)]]_vars

\* an administrator without capability flags has set "Hi" with the link t.me
\* on a chat whose record held the id of a sent message
C17_Witness ==
    \E w \in Workers, c \in WelcomeChats :
        /\ task[w].kind = "setwelcome"
        /\ task[w].pc = "reply_return"
        /\ task[w].member = ChatMember("administrator", AdminAttrs(FALSE, FALSE))
        /\ LastCall(task[w]).args.text = "Welcome message saved for this chat."
        /\ platform[c].sent # <<>>
        /\ STORE.welcomes[PyStr(c)]
               = [message |-> WordHi, channel_link |-> WordLink,
                  last_welcome_message_id |-> None]

\* the sends of a welcome handler that have succeeded
SendsDone(trace) ==
    {i \in Calls(trace, "send_message") : trace[i].res = "ok"}

\* the ids of the last n messages sent in a chat
LastSent(plat, c, n) ==
    {plat[c].sent[i] : i \in (Len(plat[c].sent) - n + 1)..Len(plat[c].sent)}

\* C18 as claimed: a welcome handler about to send for a second or later
\* member, after a send of the same event succeeded, has asked for the
\* deletion of the instance most recently sent in the chat; and when the
\* event ends, every instance it sent, except the one
\* last_welcome_message_id holds, has had its deletion asked for.
C18_DeletePrecedingInstance ==
    /\ [](\A w \in Workers :
             LET t == task[w]
                 c == t.update.chat
             IN  (t.kind = "welcome" /\ t.pc = "send_message" /\ t.idx >= 2
                  /\ SendsDone(t.trace) # {}) =>
                    platform[c].sent[Len(platform[c].sent)] \in platform[c].delete_asked)
    /\ [][\A w \in Workers :
             (Resumes(w, "welcome", "send_message") /\ task'[w].pc = "idle") =>
                LET c == task[w].update.chat
                    n == Cardinality(SendsDone(task[w].trace))
                         + Len(platform'[c].sent) - Len(platform[c].sent)
                IN  \A id \in LastSent(platform', c, n) :
                       \/ Pointer(STORE', c) = Some(id)
                       \/ id \in platform'[c].delete_asked]_vars

\* C19: in a welcome handler that holds a last_welcome_message_id, the
\* delete is asked for before the send of each member; whatever the delete
\* answers, the handler replies nothing, raises nothing and goes on to the
\* send of the same member, leaving the document as it was; and when that
\* send succeeds its id is stored, the delete having succeeded or failed.
C19_DeleteFailureTolerated ==
    /\ [](\A w \in Workers :
             LET t == task[w]
             IN  (t.kind = "welcome" /\ t.pc # "idle") =>
                    /\ Calls(t.trace, "reply_text") = {}
                    /\ \A i \in Calls(t.trace, "send_message") :
                          IdTruthy(t.cfg.last_welcome_message_id) =>
                             /\ i > 1
                             /\ t.trace[i - 1].op = "delete_message"
                             /\ t.trace[i - 1].res \in CallResults)
    /\ [][\A w \in Workers :
             /\ Resumes(w, "welcome", "delete_message") =>
                   /\ task'[w].pc = "send_message"
                   /\ task'[w].outcome = "running"
                   /\ task'[w].idx = task[w].idx
                   /\ Len(task'[w].trace) = Len(task[w].trace) + 1
                   /\ UNCHANGED <<STORE, DISK, platform>>
             /\ (Resumes(w, "welcome", "send_message")
                    /\ Len(task[w].trace) >= 2
                    /\ task[w].trace[Len(task[w].trace) - 1].op = "delete_message"
                    /\ platform'[task[w].update.chat].sent
                           # platform[task[w].update.chat].sent) =>
                   LET c == task[w].update.chat
                   IN  Pointer(STORE', c)
                           = Some(platform'[c].sent[Len(platform'[c].sent)])]_vars

\* a delete failed, the send after it succeeded and its id is the one stored
C19_Witness ==
    \E w \in Workers :
        /\ task[w].kind = "welcome"
        /\ task[w].pc # "idle"
        /\ \E i \in Calls(task[w].trace, "delete_message") :
              /\ task[w].trace[i].res = "fail"
              /\ task[w].trace[i + 1].op = "send_message"
              /\ task[w].trace[i + 1].res = "ok"
        /\ LET c == task[w].update.chat
           IN  /\ Len(platform[c].sent) >= 2
               /\ Pointer(STORE, c) = Some(platform[c].sent[Len(platform[c].sent)])

\* the counter of a pair: its entry, None when it has none
Counter(store, c, x) ==
    IF HasCount(store, c, x) THEN Some(store.warns[PyStr(c)][PyStr(x)]) ELSE None

\* C20: a step of a warn on (chat, target) leaves the counter of every other
\* pair, in the same chat and in the other chats, and every welcome record
\* unchanged; a step of a setwelcome, a clearwelcome or a welcome handler
\* leaves every warn counter unchanged.
C20_Frame ==
    [][\A w \in Workers :
          task'[w] # task[w] =>
             IF task'[w].kind = "warn"
             THEN /\ STORE'.welcomes = STORE.welcomes
                  /\ \A c \in Chats, x \in TargetIds :
                        Counter(STORE', c, x) # Counter(STORE, c, x) =>
                           /\ task[w].pc = "get_chat_member"
                           /\ c = task[w].update.chat
                           /\ x = ExpectedTarget(task[w].update)
             ELSE /\ STORE'.warns = STORE.warns
                  /\ \A c \in Chats, x \in TargetIds :
                        Counter(STORE', c, x) = Counter(STORE, c, x)]_vars

\* a warn on (-1001, 7) has been counted while (-1001, 5) holds a count and
\* -1002 holds a welcome record with the id of a sent message
C20_Witness ==
    \E w \in Workers :
        /\ task[w].kind = "warn"
        /\ task[w].pc = "reply_return"
        /\ task[w].update.chat = -1001
        /\ task[w].target = Some(7)
        /\ Counter(STORE, -1001, 7) = Some(1)
        /\ Counter(STORE, -1001, 5) = Some(1)
        /\ Counter(STORE, -1002, 7) = None
        /\ Pointer(STORE, -1002) = Some(1)

\* the file holds the in-memory document: a restart would load it
InSync == load_store(DISK) = STORE

\* the step is a restart of the process
Restarted == \A w \in Workers : task'[w] = IdleTask

\* the step of worker w made a save that succeeded
SavedOk(w) ==
    /\ Len(task'[w].trace) > Len(task[w].trace)
    /\ \E i \in (Len(task[w].trace) + 1)..Len(task'[w].trace) :
          task'[w].trace[i].op = "save_store" /\ task'[w].trace[i].res = "ok"

WarnPasses(w) ==
    /\ Resumes(w, "warn", "get_chat_member")
    /\ task'[w].pc = "reply_return"
    /\ Permitted(task'[w])
    /\ ~Unresolved(task[w].update)

\* the total a warn in flight has reported
Reported(t) == LastCall(t).args.extra

\* C22: with warn, setwelcome and join handlers of two workers interleaved
\* at their awaits, each warn that passes authorization and target
\* resolution raises the count of its pair by one from what any handler
\* left there, and no other step changes a count; so each count is the
\* number of such warns on its pair, and two warns of one pair that are
\* replying report different totals.
C22_NoLostWarn ==
    /\ [](/\ \A c \in Chats, x \in TargetIds :
                WarnCount(STORE, c, x) = DictGet(history.warned, <<c, x>>, 0)
          /\ \A w \in Workers, v \in Workers :
                (/\ w # v
                 /\ task[w].kind = "warn" /\ task[w].pc = "reply_return"
                 /\ task[v].kind = "warn" /\ task[v].pc = "reply_return"
                 /\ task[w].target # None /\ task[w].target = task[v].target
                 /\ task[w].update.chat = task[v].update.chat) =>
                   Reported(task[w]) # Reported(task[v]))
    /\ [][\A c \in Chats, x \in TargetIds :
             IF \E w \in Workers :
                    /\ WarnPasses(w)
                    /\ task[w].update.chat = c
                    /\ ExpectedTarget(task[w].update) = x
             THEN WarnCount(STORE', c, x) = WarnCount(STORE, c, x) + 1
             ELSE WarnCount(STORE', c, x) = WarnCount(STORE, c, x)]_vars

\* two warns of the pair (-1001, 5) are replying, with the totals 1 and 2,
\* while the chat has had a welcome message sent
C22_Witness ==
    /\ task["w1"].kind = "warn" /\ task["w1"].pc = "reply_return"
    /\ task["w2"].kind = "warn" /\ task["w2"].pc = "reply_return"
    /\ task["w1"].update.chat = -1001 /\ task["w2"].update.chat = -1001
    /\ task["w1"].target = Some(5) /\ task["w2"].target = Some(5)
    /\ Reported(task["w1"]) = Some(2)
    /\ Reported(task["w2"]) = Some(1)
    /\ WarnCount(STORE, -1001, 5) = 2
    /\ platform[-1001].sent # <<>>

\* C23: with the welcome commands and join handlers of two workers
\* interleaved at their awaits, a chat without a record gets one only in the
\* step of a setwelcome that resumes from its role lookup; a step of a join
\* handler leaves each chat with a record or without one as it was, and
\* when its chat has lost its record while it was suspended in the delete
\* or the send it leaves the document and the file as they were; and no
\* join handler ends with an exception.
C23_TriggerNeverConfigures ==
    /\ [](\A w \in Workers : task[w].kind = "welcome" => task[w].outcome # "raised")
    /\ [][/\ \A c \in Chats :
                (~Configured(STORE, c) /\ Configured(STORE', c)) =>
                   \E w \in Workers :
                       /\ Resumes(w, "setwelcome", "get_chat_member")
                       /\ task[w].update.chat = c
          /\ \A w \in Workers :
                (task[w].kind = "welcome" /\ task[w].pc # "idle"
                     /\ task'[w] # task[w]) =>
                   /\ \A c \in Chats : Configured(STORE', c) <=> Configured(STORE, c)
                   /\ ~Configured(STORE, task[w].update.chat) =>
                         /\ UNCHANGED <<STORE, DISK>>
                         /\ Pointer(STORE', task[w].update.chat) = None]_vars

\* a join handler has sent its first message after a clearwelcome removed
\* the record, and goes on to its second member with the chat unconfigured
C23_Witness ==
    \E w \in Workers, v \in Workers :
        /\ task[w].kind = "welcome"
        /\ task[w].pc # "idle"
        /\ task[w].idx = 2
        /\ SendsDone(task[w].trace) # {}
        /\ ~HasOp(task[w].trace, {"save_store"})
        /\ ~Configured(STORE, task[w].update.chat)
        /\ DISK.tag = "json"
        /\ ~Configured(DISK.doc, task[w].update.chat)
        /\ task[v].kind = "clearwelcome"
        /\ task[v].outcome = "returned"

====
